---- MODULE Spec2Model ----
(***************************************************************************)
(* Verification model of the LensIQ ESG ingestion pipeline:                *)
(*   - the per-adapter token-bucket rate limiter                           *)
(*     (DataIngestionAdapter._create_rate_limiter / _check_rate_limit),    *)
(*   - adapter-side validation (DataIngestionAdapter.validate_data with    *)
(*     ProductionDataValidator.validate_data),                             *)
(*   - deduplication (PetastormMLPipeline._deduplicate_data),              *)
(*   - multi-source reconciliation (IntelligentReconciliationEngine),      *)
(*   - dataset writing (PetastormMLPipeline.create_petastorm_dataset).     *)
(*                                                                         *)
(* Python floats are modelled by exact rationals [n |-> _, d |-> _] in     *)
(* lowest terms, so record equality is numeric equality.  Timestamps are   *)
(* whole hours; date-of(timestamp) is timestamp \div 24.                   *)
(***************************************************************************)
EXTENDS Integers, Sequences, FiniteSets, TLC

VARIABLES
  now,            \* time.time(), in seconds
  rate_limiter,   \* DataIngestionAdapter.rate_limiter
  rl_result,      \* return value of the last _check_rate_limit call
  grants          \* <<True returns at instant now, at instant now - TickSeconds>>

VARIABLES
  data,                 \* the list handed to _deduplicate_data
  deduplicated,         \* _deduplicate_data(data)
  deduplicated_again,   \* _deduplicate_data(deduplicated)
  dedup_pc              \* "input", "once" or "twice"

VARIABLES
  data_by_source,             \* argument of reconcile_multi_source_data
  reconciliation_strategy,    \* argument of reconcile_multi_source_data
  ai_analysis,                \* what ai_interface.generate_insights does
  reconciliation_result,      \* the ReconciliationResult returned
  reconciliation_history,     \* IntelligentReconciliationEngine state
  source_reliability_scores,  \* IntelligentReconciliationEngine state
  recon_pc                    \* "idle", "done" or "raised"

VARIABLES
  data_points,      \* the points an adapter built, handed to validate_data
  validated_data,   \* what validate_data returned
  validate_pc       \* "fetched" or "validated"

VARIABLES
  storage,          \* storage_path: directory -> the Parquet files in it
  ds_call,          \* the arguments of the running create_petastorm_dataset
  dataset_path,     \* what the call returned, or the exception it raised
  read_back,        \* what pd.read_parquet(dataset_path) gave
  guid,             \* files write_to_dataset has named so far
  ds_pc             \* "idle", "written" or "read"

VARIABLES
  ingested,         \* what ingest_multi_source_data gave create_training_dataset
  validation_split, \* argument of create_training_dataset
  test_split,       \* argument of create_training_dataset
  engine_runs,      \* the primary engine's state at each of the three writes
  splits,           \* train_data, val_data and test_data after the slicing
  datasets,         \* the returned dict of paths, or the exception raised
  train_pc          \* "called" or "done"

VARIABLES
  cycle_args,            \* the three *_enabled flags of the running cycle
  cycle_env,             \* how the collaborators answer during the cycle
  cycle_pc,              \* the phase the cycle is about to run, or "done"
  cycle_results,         \* the cycle_results dict
  cycle_data_by_source,  \* the local data_by_source
  cycle_reconciled,      \* the local reconciled_data
  cycle_stages           \* the phases that have done work, in order

VARIABLES
  esg_record,       \* the dict handed to ProductionDataValidator.validate_data
  check_results,    \* what each check of ESGDataValidator gave for it
  quality_report,   \* the DataQualityReport validate_data returned
  esg_pc            \* "given" or "validated"

VARIABLES
  company_ids,           \* the list handed to the adapter's ingest_data
  connector,             \* what the connector answers for each list position
  source_name,           \* the adapter's source_name
  adapter_rate_limiter,  \* the adapter's token bucket, tokens as a float
  clock,                 \* time.time() in seconds
  ingest_i,              \* position of the loop in company_ids
  ingest_points,         \* the local data_points
  ingest_log,            \* per company visited: the limiter's verdict
  ingest_result,         \* what ingest_data returned or raised
  ingest_pc              \* "idle", "loop" or "returned"

VARIABLES
  multi_sources,    \* the sources argument of ingest_multi_source_data
  multi_adapters,   \* self.adapters: what each adapter's ingest_data gives
  multi_result,     \* what ingest_multi_source_data returned or raised
  multi_pc          \* "called" or "returned"

VARIABLES
  callers,          \* the coroutines sharing one adapter: position, work left
  running,          \* the coroutine the event loop is running, 0 for none
  start_tokens      \* the tokens of the shared bucket when they started

rlVars == <<now, rate_limiter, rl_result, grants>>
dedupVars == <<data, deduplicated, deduplicated_again, dedup_pc>>
reconVars == <<data_by_source, reconciliation_strategy, ai_analysis,
               reconciliation_result, reconciliation_history,
               source_reliability_scores, recon_pc>>

validateVars == <<data_points, validated_data, validate_pc>>

datasetVars == <<storage, ds_call, dataset_path, read_back, guid, ds_pc>>

trainVars == <<ingested, validation_split, test_split, engine_runs, splits,
               datasets, train_pc>>

cycleVars == <<cycle_args, cycle_env, cycle_pc, cycle_results,
               cycle_data_by_source, cycle_reconciled, cycle_stages>>

esgVars == <<esg_record, check_results, quality_report, esg_pc>>

ingestVars == <<company_ids, connector, source_name, adapter_rate_limiter,
                clock, ingest_i, ingest_points, ingest_log, ingest_result,
                ingest_pc>>

multiVars == <<multi_sources, multi_adapters, multi_result, multi_pc>>

callerVars == <<callers, running, start_tokens>>

vars == <<rlVars, dedupVars, reconVars, validateVars, datasetVars, trainVars,
          cycleVars, esgVars, ingestVars, multiVars, callerVars>>

\* the variables each component leaves alone
notRateLimit == <<dedupVars, reconVars, validateVars, datasetVars, trainVars,
  cycleVars, esgVars, ingestVars, multiVars,
  callerVars>>
notDedup == <<rlVars, reconVars, validateVars, datasetVars, trainVars,
  cycleVars, esgVars, ingestVars, multiVars,
  callerVars>>
notRecon == <<rlVars, dedupVars, validateVars, datasetVars, trainVars,
  cycleVars, esgVars, ingestVars, multiVars,
  callerVars>>
notValidate == <<rlVars, dedupVars, reconVars, datasetVars, trainVars,
  cycleVars, esgVars, ingestVars, multiVars,
  callerVars>>
notDataset == <<rlVars, dedupVars, reconVars, validateVars, trainVars,
  cycleVars, esgVars, ingestVars, multiVars,
  callerVars>>
notTrain == <<rlVars, dedupVars, reconVars, validateVars, cycleVars, esgVars, ingestVars, multiVars,
  callerVars>>

\* what a cycle leaves alone besides the engine state and the store
notCycle == <<rlVars, dedupVars, validateVars, trainVars, ds_call,
              dataset_path, read_back, ds_pc, esgVars, ingestVars, multiVars,
  callerVars>>
notEsg == <<rlVars, dedupVars, reconVars, validateVars, datasetVars,
            trainVars, cycleVars, ingestVars, multiVars,
  callerVars>>
notIngest == <<rlVars, dedupVars, reconVars, validateVars, datasetVars,
               trainVars, cycleVars, esgVars, multiVars, callerVars>>
notMulti == <<rlVars, dedupVars, reconVars, validateVars, datasetVars,
              trainVars, cycleVars, esgVars, ingestVars, callerVars>>

\* what the callers of a shared adapter leave alone besides its bucket, the
\* clock and the log of its checks
notCallers == <<rlVars, dedupVars, reconVars, validateVars, datasetVars,
                trainVars, cycleVars, esgVars, multiVars, company_ids,
                connector, source_name, ingest_i, ingest_points, ingest_log,
                ingest_result, ingest_pc>>

-----------------------------------------------------------------------------
(* Bounds and program constants *)

RateLimit == 100        \* config.get('rate_limit', 100)
WindowSeconds == 60     \* refill_rate = rate_limit / 60.0
MaxTicks == 3           \* the clock is observed at 0, 30, ..., MaxTicks * 30 s
MaxLen == 3             \* longest record list handed to an operation
MaxPerSource == 2       \* most records one source contributes to a cycle
MaxWrites == 2          \* datasets written in one run
MaxRows == 2            \* most records in one dataset
MaxIngested == 4        \* most records ingested for a training dataset
MaxFetched == 2         \* most records one adapter returns in a cycle
MaxSeconds == 2         \* seconds the callers of a shared adapter are followed
MaxCompanies == 3       \* longest company list handed to an adapter

\* Clock granularity: two observation instants per 60-second window, which
\* keeps time_passed * refill_rate integral (50 tokens per tick).
TickSeconds == WindowSeconds \div 2

Min(a, b) == IF a <= b THEN a ELSE b

\* None in a string-valued field
None == "None"

-----------------------------------------------------------------------------
(* Exact rationals standing for Python floats *)

RECURSIVE GCD(_, _)
GCD(a, b) == IF b = 0 THEN a ELSE GCD(b, a % b)

Abs(a) == IF a < 0 THEN -a ELSE a

\* n / d in lowest terms with a positive denominator (d # 0)
R(n, d) ==
  LET g == GCD(Abs(n), Abs(d))
      s == IF d < 0 THEN -1 ELSE 1
  IN [n |-> (s * n) \div g, d |-> (s * d) \div g]

Zero == R(0, 1)
One == R(1, 1)

RAdd(x, y) == R(x.n * y.d + y.n * x.d, x.d * y.d)
RMul(x, y) == R(x.n * y.n, x.d * y.d)
RDiv(x, y) == R(x.n * y.d, x.d * y.n)
RLess(x, y) == x.n * y.d < y.n * x.d
RLeq(x, y) == x.n * y.d <= y.n * x.d
RMin(x, y) == IF RLeq(x, y) THEN x ELSE y

\* sum of f[x] over the finite set S, for rational-valued f
RECURSIVE RSum(_, _)
RSum(f, S) ==
  IF S = {} THEN Zero
  ELSE LET x == CHOOSE x \in S : TRUE IN RAdd(f[x], RSum(f, S \ {x}))

\* np.mean of a non-empty sequence of rationals
RMean(xs) ==
  RDiv(RSum(xs, DOMAIN xs), R(Len(xs), 1))

\* None in a float-valued field: no rational has denominator 0
NoneNum == [n |-> 0, d |-> 0]

-----------------------------------------------------------------------------
(* ESGDataPoint *)

\* an ESGDataPoint whose optional fields other than carbon_intensity keep
\* their dataclass default None
ESGDataPoint(cid, ts, src, env, soc, gov, comb, carbon, quality, conf) ==
  [company_id |-> cid, timestamp |-> ts, data_source |-> src,
   environmental_score |-> env, social_score |-> soc,
   governance_score |-> gov, combined_score |-> comb,
   carbon_intensity |-> carbon, water_intensity |-> NoneNum,
   waste_intensity |-> NoneNum, energy_efficiency |-> NoneNum,
   employee_satisfaction |-> NoneNum, board_diversity |-> NoneNum,
   revenue |-> NoneNum, market_cap |-> NoneNum,
   sector |-> None, region |-> None,
   data_quality_score |-> quality, confidence_score |-> conf]

\* the six metrics an adapter reads with esg_data['metrics'].get(...)
MetricFields ==
  {"carbon_intensity", "water_intensity", "waste_intensity",
   "energy_efficiency", "employee_satisfaction", "board_diversity"}

\* the Optional[float] fields of ESGDataPoint
OptionalFloatFields == MetricFields \cup {"revenue", "market_cap"}

\* the Optional[str] fields of ESGDataPoint
OptionalStrFields == {"sector", "region"}

\* datetime.date(): the day a timestamp (in hours) falls on
DateOf(ts) == ts \div 24

\* the sequences over S of length at most k
SeqsUpTo(S, k) == UNION {[1..m -> S] : m \in 0..k}

Range(s) == {s[i] : i \in DOMAIN s}

-----------------------------------------------------------------------------
(* Rate limiter *)

create_rate_limiter ==
  [tokens |-> RateLimit, max_tokens |-> RateLimit, last_refill |-> 0]

\* mutant of refill_tokens: the min(max_tokens, ...) cap is dropped
refill_tokens_uncapped(rl, t) ==
  rl.tokens + ((t - rl.last_refill) * RateLimit) \div WindowSeconds

\* tokens after the lazy refill at time t
refill_tokens(rl, t) ==
  Min(rl.max_tokens,
      rl.tokens + ((t - rl.last_refill) * RateLimit) \div WindowSeconds)

\* mutant of has_token: off-by-one in the availability test
has_token_strict(tokens) == tokens > 1

\* if self.rate_limiter['tokens'] >= 1
has_token(tokens) == tokens >= 1

check_rate_limit ==
  LET refilled == refill_tokens(rate_limiter, now) IN
  /\ rate_limiter' = [rate_limiter EXCEPT
                        !.tokens = IF has_token(refilled) THEN refilled - 1
                                                          ELSE refilled,
                        !.last_refill = now]
  /\ rl_result' = IF has_token(refilled) THEN "True" ELSE "False"
  /\ grants' = IF has_token(refilled) THEN <<grants[1] + 1, grants[2]>>
                                      ELSE grants
  /\ UNCHANGED <<now, notRateLimit>>

\* the wall clock advances by one tick
Tick ==
  /\ now < MaxTicks * TickSeconds
  /\ now' = now + TickSeconds
  /\ grants' = <<0, grants[1]>>
  /\ UNCHANGED <<rate_limiter, rl_result, notRateLimit>>

-----------------------------------------------------------------------------
(* Deduplication *)

\* key = (data_point.company_id, data_point.timestamp.date())
DedupKey(p) == <<p.company_id, DateOf(p.timestamp)>>

\* mutant of keep_new: ties replace the kept record
keep_new_on_tie(new, kept) ==
  RLeq(kept.data_quality_score, new.data_quality_score)

\* if data_point.data_quality_score > grouped_data[key].data_quality_score
keep_new(new, kept) ==
  RLess(kept.data_quality_score, new.data_quality_score)

\* grouped_data after the first k records; the insertion-ordered dict is the
\* sequence of its values, one per key, in order of first appearance
RECURSIVE grouped_data(_, _)
grouped_data(d, k) ==
  IF k = 0 THEN << >>
  ELSE LET acc == grouped_data(d, k - 1)
           p == d[k]
           hit == {j \in DOMAIN acc : DedupKey(acc[j]) = DedupKey(p)}
       IN IF hit = {} THEN Append(acc, p)
          ELSE LET j == CHOOSE j \in hit : TRUE
               IN IF keep_new(p, acc[j]) THEN [acc EXCEPT ![j] = p] ELSE acc

\* mutant of deduplicate_data: a record is only compared with its
\* neighbours in the list
deduplicate_data_adjacent(d) ==
  LET keep(i) ==
        /\ ~ (i > 1 /\ DedupKey(d[i - 1]) = DedupKey(d[i])
                    /\ RLeq(d[i].data_quality_score,
                            d[i - 1].data_quality_score))
        /\ ~ (i < Len(d) /\ DedupKey(d[i + 1]) = DedupKey(d[i])
                         /\ RLess(d[i].data_quality_score,
                                  d[i + 1].data_quality_score))
      kept == SelectSeq([i \in DOMAIN d |-> i], keep)
  IN [j \in DOMAIN kept |-> d[kept[j]]]

\* list(grouped_data.values())
deduplicate_data(d) == grouped_data(d, Len(d))

Deduplicate ==
  /\ dedup_pc = "input"
  /\ deduplicated' = deduplicate_data(data)
  /\ dedup_pc' = "once"
  /\ UNCHANGED <<data, deduplicated_again, notDedup>>

DeduplicateAgain ==
  /\ dedup_pc = "once"
  /\ deduplicated_again' = deduplicate_data(deduplicated)
  /\ dedup_pc' = "twice"
  /\ UNCHANGED <<data, deduplicated, notDedup>>

\* the records deduplication is exercised on: two companies, two days, two
\* readings on the first day, two quality scores
DedupPoints ==
  {ESGDataPoint(c, t[1], t[2], R(85, 1), R(78, 1), R(92, 1), R(85, 1),
                NoneNum, q, One) :
     c \in {"AAPL", "MSFT"},
     t \in {<<0, "refinitiv">>, <<12, "bloomberg">>, <<24, "refinitiv">>},
     q \in {R(85, 100), R(95, 100)}}

-----------------------------------------------------------------------------
(* Adapter-side validation *)

\* ESGDataPoint.to_dict(): the same keys, the timestamp as an ISO string
to_dict(p) == [p EXCEPT !.timestamp = [isoformat |-> @]]

\* any(indicator in data for indicator in esg_indicators)
is_esg_data(d) ==
  {"esg_scores", "environmental", "social", "governance"} \cap DOMAIN d # {}

\* null_fields = [key for key, value in data.items() if value is None]
null_fields(d) ==
  {f \in DOMAIN d :
     IF f \in OptionalFloatFields THEN d[f] = NoneNum
     ELSE IF f \in OptionalStrFields THEN d[f] = None
     ELSE FALSE}

\* _validate_generic_data on a non-empty record: one completeness result
validate_generic_data(d) ==
  <<[dimension |-> "completeness",
     severity |-> IF null_fields(d) # {} THEN "warning" ELSE "info",
     score |-> RAdd(One, R(-Cardinality(null_fields(d)),
                           Cardinality(DOMAIN d)))]>>

DataQualityDimension ==
  {"completeness", "validity", "consistency", "timeliness", "accuracy",
   "uniqueness"}

\* average score per dimension, 1.0 for a dimension without results
calculate_dimension_scores(results) ==
  [dim \in DataQualityDimension |->
     LET rs == SelectSeq(results, LAMBDA r : r.dimension = dim) IN
     IF rs = << >> THEN One
     ELSE RMean([i \in DOMAIN rs |-> rs[i].score])]

\* ProductionDataValidator.validate_data on one ESGDataPoint.to_dict(): the
\* dict has none of the keys _is_esg_data looks for, so the record is
\* validated by _validate_generic_data
overall_score(d) ==
  LET dimension_scores ==
        calculate_dimension_scores(validate_generic_data(d))
  IN RDiv(RSum(dimension_scores, DataQualityDimension),
          R(Cardinality(DataQualityDimension), 1))

\* mutant of with_quality_score: the score of the report is not stored
with_quality_score_kept(p, score) == p

\* data_point.data_quality_score = quality_report.overall_score
with_quality_score(p, score) == [p EXCEPT !.data_quality_score = score]

\* if quality_report.overall_score >= 0.7
meets_threshold(score) == RLeq(R(7, 10), score)

\* the loop of DataIngestionAdapter.validate_data over the first k points:
\* every point gets its score, the ones meeting the threshold are kept
RECURSIVE validated_prefix(_, _)
validated_prefix(points, k) ==
  IF k = 0 THEN << >>
  ELSE LET score == overall_score(to_dict(points[k])) IN
       IF meets_threshold(score)
       THEN Append(validated_prefix(points, k - 1),
                   with_quality_score(points[k], score))
       ELSE validated_prefix(points, k - 1)

validate_data ==
  /\ validate_pc = "fetched"
  /\ validated_data' = validated_prefix(data_points, Len(data_points))
  /\ data_points' =
       [i \in DOMAIN data_points |->
          with_quality_score(data_points[i],
                             overall_score(to_dict(data_points[i])))]
  /\ validate_pc' = "validated"
  /\ UNCHANGED notValidate

\* the ESGDataPoint an adapter builds from a provider payload whose metrics
\* dict holds the keys in `present`
AdapterPoint(cid, src, present, conf) ==
  [[f \in MetricFields |-> IF f \in present THEN R(45, 1) ELSE NoneNum]
     @@ ESGDataPoint(cid, 0, src, R(85, 1), R(78, 1), R(92, 1), R(85, 1),
                     NoneNum, One, conf)
   EXCEPT !.company_id = cid]

\* payloads with all, three (as in the adapter test) or none of the metrics
FetchedPoints ==
  {AdapterPoint(c, "refinitiv", m, R(95, 100)) :
     c \in {"AAPL", "MSFT"},
     m \in {MetricFields,
            {"carbon_intensity", "water_intensity", "energy_efficiency"},
            {}}}

-----------------------------------------------------------------------------
(* Dataset writer *)

DatasetNames == {"train"}

\* f"train_{dataset_id}", f"val_{dataset_id}" and f"test_{dataset_id}"
SplitNames == {"train", "val", "test"}

\* records of two sources for one company
DatasetPoints ==
  {ESGDataPoint("AAPL", 0, "refinitiv", R(85, 1), R(78, 1), R(92, 1),
                R(85, 1), R(45, 1), R(95, 100), R(92, 100)),
   ESGDataPoint("AAPL", 0, "bloomberg", R(82, 1), R(80, 1), R(88, 1),
                R(250, 3), NoneNum, R(88, 100), R(90, 100))}

\* storage_path / dataset_name and storage_path / f"{dataset_name}_parquet"
PrimaryPath(dataset_name) == [name |-> dataset_name, suffix |-> ""]
FallbackPath(dataset_name) == [name |-> dataset_name, suffix |-> "_parquet"]
\* f"automated_cycle_{datetime.now().strftime('%Y%m%d_%H%M%S')}"
CycleDatasetName == "automated_cycle"

AllDatasetNames == DatasetNames \cup SplitNames \cup {CycleDatasetName}

Paths == {PrimaryPath(n) : n \in AllDatasetNames}
           \cup {FallbackPath(n) : n \in AllDatasetNames}

\* pd.to_datetime of the ISO string to_dict() produced
to_datetime(iso) == iso.isoformat

\* one row of pd.DataFrame([p.to_dict() ...]) after
\* df['timestamp'] = pd.to_datetime(df['timestamp'])
to_row(p) == [to_dict(p) EXCEPT !.timestamp = to_datetime(@)]

\* the rows of a list of points, in order
to_rows(points) == [i \in DOMAIN points |-> to_row(points[i])]

\* the values of the partition columns of a row
partition_of(row, partition_cols) ==
  [c \in Range(partition_cols) |-> row[c]]

\* a row as stored below its partition directory: partition columns removed
without_columns(row, cols) == [f \in DOMAIN row \ cols |-> row[f]]

\* the files one write of `rows` produces: one per partition directory, or
\* the single file data.parquet
RECURSIVE partition_files(_, _, _)
partition_files(rows, partition_cols, parts) ==
  IF parts = {} THEN << >>
  ELSE LET part == CHOOSE x \in parts : TRUE
           mine == SelectSeq(rows, LAMBDA r :
                     partition_of(r, partition_cols) = part)
       IN <<[data_parquet |-> FALSE, partition |-> part,
             rows |-> [i \in DOMAIN mine |->
                         without_columns(mine[i], Range(partition_cols))]]>>
            \o partition_files(rows, partition_cols, parts \ {part})

\* pq.write_to_dataset: new uniquely named files next to what is there
write_to_dataset(dir, rows, partition_cols) ==
  dir \o partition_files(rows, partition_cols,
             {partition_of(rows[i], partition_cols) : i \in DOMAIN rows})

\* pq.write_table(table, dataset_path / "data.parquet"): replaces that file
write_table(dir, rows) ==
  SelectSeq(dir, LAMBDA f : ~ f.data_parquet)
    \o <<[data_parquet |-> TRUE, partition |-> << >>, rows |-> rows]>>

\* the rows of one file with the columns of its partition directory restored
file_rows(f) ==
  [i \in DOMAIN f.rows |-> f.partition @@ f.rows[i]]

\* the rows of every file below a directory
RECURSIVE dir_rows(_, _)
dir_rows(dir, k) ==
  IF k = 0 THEN << >> ELSE dir_rows(dir, k - 1) \o file_rows(dir[k])

\* a directory holding data.parquet next to partition directories
mixed_layout(dir) ==
  /\ \E i \in DOMAIN dir : dir[i].data_parquet
  /\ \E i \in DOMAIN dir : ~ dir[i].data_parquet

Raised(exc) == [raised |-> TRUE, exception |-> exc, path |-> PrimaryPath("")]
Returned(path) == [raised |-> FALSE, exception |-> "", path |-> path]

\* _create_parquet_fallback on the store st with g files named so far: the
\* directory is made first; an empty list gives a DataFrame without
\* columns, so df['timestamp'] raises KeyError
parquet_fallback_outcome(st, g, records, dataset_name, partition_cols) ==
  LET dataset_dir == FallbackPath(dataset_name) IN
  IF records = << >>
  THEN [storage |-> st, guid |-> g, dataset_path |-> Raised("KeyError")]
  ELSE [storage |->
          [st EXCEPT ![dataset_dir] =
             IF partition_cols # << >>
             THEN write_to_dataset(@, to_rows(records), partition_cols)
             ELSE write_table(@, to_rows(records))],
        guid |-> IF partition_cols # << >> THEN g + 1 ELSE g,
        dataset_path |-> Returned(dataset_dir)]

create_parquet_fallback(records, dataset_name, partition_cols) ==
  LET out == parquet_fallback_outcome(storage, guid, records, dataset_name,
                                      partition_cols)
  IN /\ storage' = out.storage
     /\ guid' = out.guid
     /\ dataset_path' = out.dataset_path

\* the engine is usable and its write succeeds: the dataset is at the
\* primary path
primary_write_outcome(st, g, records, dataset_name, partition_cols) ==
  [storage |->
     [st EXCEPT ![PrimaryPath(dataset_name)] =
        write_to_dataset(<< >>, to_rows(records), partition_cols)],
   guid |-> g,
   dataset_path |-> Returned(PrimaryPath(dataset_name))]

primary_write(records, dataset_name, partition_cols) ==
  LET out == primary_write_outcome(storage, guid, records, dataset_name,
                                   partition_cols)
  IN /\ storage' = out.storage
     /\ guid' = out.guid
     /\ dataset_path' = out.dataset_path

\* what the primary engine does with a call: Petastorm missing, no Spark
\* session, a write that raises, or a write that succeeds
EngineStates == {"no_petastorm", "no_spark", "write_fails", "ok"}

\* create_petastorm_dataset as a function of the store and the engine state
petastorm_dataset_outcome(st, g, records, dataset_name, partition_cols, engine) ==
  IF engine = "ok"
  THEN primary_write_outcome(st, g, records, dataset_name, partition_cols)
  ELSE parquet_fallback_outcome(st, g, records, dataset_name, partition_cols)

create_petastorm_dataset ==
  /\ ds_pc \in {"idle", "read"}
  /\ ds_call.writes < MaxWrites
  /\ \E records \in SeqsUpTo(DatasetPoints, MaxRows),
        dataset_name \in DatasetNames,
        partition_cols \in {<< >>, <<"data_source">>},
        engine \in EngineStates :
       /\ ds_call' = [data |-> records, dataset_name |-> dataset_name,
                      partition_cols |-> partition_cols, engine |-> engine,
                      writes |-> ds_call.writes + 1]
       /\ IF engine = "ok"
          THEN primary_write(records, dataset_name, partition_cols)
          ELSE create_parquet_fallback(records, dataset_name, partition_cols)
  /\ ds_pc' = "written"
  /\ read_back' = [ok |-> FALSE, rows |-> << >>]
  /\ UNCHANGED notDataset

\* pd.read_parquet(dataset_path) on the directory a call returned; a
\* directory mixing data.parquet and partition directories either fails to
\* load or loads every file
read_parquet ==
  /\ ds_pc = "written"
  /\ ~ dataset_path.raised
  /\ LET dir == storage[dataset_path.path]
         all == [ok |-> TRUE, rows |-> dir_rows(dir, Len(dir))]
     IN read_back' \in
          IF mixed_layout(dir)
          THEN {all, [ok |-> FALSE, rows |-> << >>]}
          ELSE {all}
  /\ ds_pc' = "read"
  /\ UNCHANGED <<storage, ds_call, dataset_path, guid>>
  /\ UNCHANGED notDataset

-----------------------------------------------------------------------------
(* Training dataset assembly *)

Max(a, b) == IF a >= b THEN a ELSE b

\* int(x) of a float x: truncation toward zero
int(x) == IF x.n >= 0 THEN x.n \div x.d ELSE -((-x.n) \div x.d)

\* a Python slice bound: negative counts from the end, then clamped to 0..n
slice_bound(i, n) == IF i < 0 THEN Max(i + n, 0) ELSE Min(i, n)

\* s[a:b] of a Python list
slice(s, a, b) ==
  SubSeq(s, slice_bound(a, Len(s)) + 1, slice_bound(b, Len(s)))

\* the orders random.shuffle can leave a list of n elements in
shuffle_orders(n) ==
  {f \in [1..n -> 1..n] : \A i, j \in 1..n : f[i] = f[j] => i = j}

\* train_data, val_data and test_data for the shuffled list (lines 582-594)
split_data(shuffled, val_ratio, test_ratio) ==
  LET total_size == Len(shuffled)
      test_size == int(RMul(R(total_size, 1), test_ratio))
      val_size == int(RMul(R(total_size, 1), val_ratio))
      train_size == total_size - test_size - val_size
  IN [train |-> slice(shuffled, 0, train_size),
      val |-> slice(shuffled, train_size, train_size + val_size),
      test |-> slice(shuffled, train_size + val_size, total_size)]

NoDatasets == [raised |-> FALSE, exception |-> "", paths |-> << >>]

\* the three create_petastorm_dataset calls in order; an exception of one
\* ends the call, what was written before it stays
write_splits(st, g, parts, engines) ==
  LET o1 == petastorm_dataset_outcome(st, g, parts.train, "train",
                                      <<"data_source">>, engines[1])
      o2 == petastorm_dataset_outcome(o1.storage, o1.guid, parts.val, "val",
                                      <<"data_source">>, engines[2])
      o3 == petastorm_dataset_outcome(o2.storage, o2.guid, parts.test,
                                      "test", <<"data_source">>, engines[3])
      failed(o) == [storage |-> o.storage, guid |-> o.guid,
                    datasets |-> [raised |-> TRUE,
                                  exception |-> o.dataset_path.exception,
                                  paths |-> << >>]]
  IN IF o1.dataset_path.raised THEN failed(o1)
     ELSE IF o2.dataset_path.raised THEN failed(o2)
     ELSE IF o3.dataset_path.raised THEN failed(o3)
     ELSE [storage |-> o3.storage, guid |-> o3.guid,
           datasets |->
             [raised |-> FALSE, exception |-> "",
              paths |-> [train |-> o1.dataset_path.path,
                         validation |-> o2.dataset_path.path,
                         test |-> o3.dataset_path.path]]]

create_training_dataset ==
  /\ train_pc = "called"
  /\ IF ingested = << >>
     THEN /\ datasets' = [raised |-> TRUE, exception |-> "ValueError",
                          paths |-> << >>]
          /\ UNCHANGED <<splits, storage, guid>>
     ELSE \E order \in shuffle_orders(Len(ingested)) :
            LET shuffled == [i \in DOMAIN ingested |-> ingested[order[i]]]
                parts == split_data(shuffled, validation_split, test_split)
                out == write_splits(storage, guid, parts, engine_runs)
            IN /\ splits' = parts
               /\ storage' = out.storage
               /\ guid' = out.guid
               /\ datasets' = out.datasets
  /\ train_pc' = "done"
  /\ UNCHANGED <<ingested, validation_split, test_split, engine_runs>>
  /\ UNCHANGED <<ds_call, dataset_path, read_back, ds_pc>>
  /\ UNCHANGED notTrain

\* company_ids of a cycle (the orchestrator's default list)
CompanyIds == <<"AAPL", "MSFT", "GOOGL", "AMZN", "TSLA">>

\* one ingested record per company, the sources alternating
IngestedPoint(i) ==
  ESGDataPoint(CompanyIds[((i - 1) % Len(CompanyIds)) + 1], i \div 6,
               IF i % 2 = 1 THEN "refinitiv" ELSE "bloomberg",
               R(85, 1), R(78, 1), R(92, 1), R(85, 1), NoneNum,
               R(95, 100), R(92, 100))

\* (validation_split, test_split): the defaults, a pair summing to 1 and a
\* pair summing to more than 1
SplitRatios ==
  {<<R(2, 10), R(1, 10)>>, <<R(5, 10), R(5, 10)>>, <<R(8, 10), R(5, 10)>>}

\* Petastorm missing or no Spark session for the whole call, or an engine
\* whose writes each succeed or fail
EngineRuns ==
  {<<"no_petastorm", "no_petastorm", "no_petastorm">>,
   <<"no_spark", "no_spark", "no_spark">>}
    \cup [1..3 -> {"write_fails", "ok"}]

-----------------------------------------------------------------------------
(* ESGDataValidator and the quality report *)

\* Python values of a provider payload, tagged with their type
NoneV == [t |-> "none", v |-> 0]
StrV(x) == [t |-> "str", v |-> x]
NumV(x) == [t |-> "num", v |-> x]
BoolV(x) == [t |-> "bool", v |-> x]
DictV(f) == [t |-> "dict", v |-> f]
TimeV(x) == [t |-> "datetime", v |-> x]

\* d.get(key, default) of a Python dict
Get(d, key, default) == IF key \in DOMAIN d THEN d[key] ELSE default

\* isinstance(x, (int, float)); bool is a subclass of int
is_numeric(x) == x.t \in {"num", "bool"}

ValidationResult(dim, sev, score) ==
  [dimension |-> dim, severity |-> sev, score |-> score]

\* what a check gives: its results, or the exception it raises
Results(rs) == [raised |-> FALSE, results |-> rs]
Raises == [raised |-> TRUE, results |-> << >>]

required_fields == {"company_id", "timestamp", "esg_scores", "data_source"}

\* variant of missing_score_penalty: every missing pillar costs a quarter
missing_score_penalty_of_four(missing_scores) ==
  R(Cardinality(missing_scores), 4)

\* len(missing_scores) / 3.0
missing_score_penalty(missing_scores) == R(Cardinality(missing_scores), 3)

validate_completeness(d) ==
  LET missing_fields ==
        {f \in required_fields : f \notin DOMAIN d \/ d[f].t = "none"}
      esg_scores == d["esg_scores"].v
      missing_scores ==
        {p \in {"environmental", "social", "governance"} :
           p \notin DOMAIN esg_scores \/ esg_scores[p].t = "none"}
      completeness_score == RAdd(One, RMul(R(-1, 1),
                                   missing_score_penalty(missing_scores)))
  IN IF missing_fields # {}
     THEN Results(<<ValidationResult("completeness", "error", Zero)>>)
     ELSE IF missing_scores # {}
     THEN Results(<<ValidationResult("completeness", "warning",
                                     completeness_score)>>)
     ELSE Results(<<ValidationResult("completeness", "info", One)>>)

esg_score_ranges == {"environmental", "social", "governance", "combined"}

\* the max of each metric rule; every min is 0
metric_rules ==
  [carbon_intensity |-> 1000, water_intensity |-> 500,
   waste_intensity |-> 100, energy_efficiency |-> 100,
   employee_satisfaction |-> 100, board_diversity |-> 100]

\* not numeric, or outside [0, max]
invalid_value(x, max) ==
  \/ ~ is_numeric(x)
  \/ ~ (RLeq(Zero, x.v) /\ RLeq(x.v, R(max, 1)))

validate_validity(d) ==
  LET scores_v == Get(d, "esg_scores", DictV(<< >>))
      metrics_v == Get(d, "metrics", DictV(<< >>))
      esg_scores == scores_v.v
      metrics == metrics_v.v
      invalid_scores ==
        {k \in DOMAIN esg_scores \cap esg_score_ranges :
           invalid_value(esg_scores[k], 100)}
      invalid_metrics ==
        {k \in DOMAIN metrics \cap DOMAIN metric_rules :
           invalid_value(metrics[k], metric_rules[k])}
      total_checks == Cardinality(DOMAIN esg_scores)
                        + Cardinality(DOMAIN metrics)
      invalid_checks == Cardinality(invalid_scores)
                          + Cardinality(invalid_metrics)
      validity_score == RAdd(One, R(-invalid_checks, Max(total_checks, 1)))
  IN IF scores_v.t # "dict" \/ metrics_v.t # "dict" THEN Raises
     ELSE IF invalid_checks > 0
     THEN Results(<<ValidationResult(
                      "validity",
                      IF RLess(validity_score, R(1, 2)) THEN "error"
                      ELSE "warning",
                      validity_score)>>)
     ELSE Results(<<ValidationResult("validity", "info", One)>>)

RAbs(x) == IF x.n < 0 THEN R(-x.n, x.d) ELSE x

validate_consistency(d) ==
  LET scores_v == Get(d, "esg_scores", DictV(<< >>))
      esg_scores == scores_v.v
      all_four == esg_score_ranges \subseteq DOMAIN esg_scores
      expected_combined ==
        RDiv(RAdd(RAdd(esg_scores["environmental"].v,
                       esg_scores["social"].v),
                  esg_scores["governance"].v), R(3, 1))
      combined_off ==
        /\ all_four
        /\ RLess(R(5, 1),
                 RAbs(RAdd(esg_scores["combined"].v,
                           RMul(R(-1, 1), expected_combined))))
      data_quality == Get(d, "data_quality", DictV(<< >>)).v
      confidence_off ==
        /\ "confidence_score" \in DOMAIN data_quality
        /\ invalid_value(data_quality["confidence_score"], 100)
      inconsistencies ==
        (IF combined_off THEN 1 ELSE 0) + (IF confidence_off THEN 1 ELSE 0)
      consistency_score ==
        RAdd(One, R(-inconsistencies,
                    Max(Cardinality(DOMAIN esg_scores), 1)))
  IN IF scores_v.t # "dict" THEN Raises
     ELSE IF all_four /\ \E k \in esg_score_ranges :
                           ~ is_numeric(esg_scores[k])
     THEN Raises
     ELSE IF inconsistencies > 0
     THEN Results(<<ValidationResult("consistency", "warning",
                                     consistency_score)>>)
     ELSE Results(<<ValidationResult("consistency", "info", One)>>)

fresh_threshold == 24
stale_threshold == 168

\* variant of timeliness_score: the decay runs over the whole week
timeliness_score_from_zero(age_hours) ==
  RAdd(One, R(-age_hours, stale_threshold))

\* 1.0 - ((age_hours - fresh_threshold) / (stale_threshold - fresh_threshold))
timeliness_score(age_hours) ==
  RAdd(One, R(-(age_hours - fresh_threshold),
              stale_threshold - fresh_threshold))

\* a timestamp is a string or a datetime; v.format tells what
\* datetime.fromisoformat makes of a string ("naive", "aware" or "garbage",
\* "empty" for the empty string) and v.age is utcnow() minus the instant it
\* denotes, in hours
validate_timeliness(d) ==
  LET timestamp_str == Get(d, "timestamp", NoneV)
      failed == Results(<<ValidationResult("timeliness", "error", Zero)>>)
      age_hours == timestamp_str.v.age
  IN IF timestamp_str.t = "none"
        \/ (timestamp_str.t = "str" /\ timestamp_str.v.format = "empty")
     THEN failed
     ELSE IF timestamp_str.v.format = "garbage" THEN failed
     ELSE IF timestamp_str.v.format = "aware" THEN failed
     ELSE IF age_hours < 0 THEN failed
     ELSE IF age_hours <= fresh_threshold
     THEN Results(<<ValidationResult("timeliness", "info", One)>>)
     ELSE IF age_hours <= stale_threshold
     THEN Results(<<ValidationResult("timeliness", "warning",
                                     timeliness_score(age_hours))>>)
     ELSE failed

\* str.lower() on the provider names of the model
lower(name) == IF name = "Mock Provider" THEN "mock provider" ELSE name

\* 'mock' in provider or 'test' in provider or 'demo' in provider
names_mock_provider(provider) == provider \in {"mock provider"}

\* re.match(r'^(mock|test|demo)_.*_\d+$', company_id)
mock_company_id(company_id) == company_id \in {"mock_co_1"}

\* score_value == int(score_value) or score_value * 2 == int(score_value * 2)
suspiciously_round(x) == x.d \in {1, 2}

validate_authenticity(d) ==
  LET is_mock == Get(d, "is_mock", BoolV(FALSE))
      provider == Get(d, "provider", StrV(""))
      scores_v == Get(d, "esg_scores", DictV(<< >>))
      esg_scores == scores_v.v
      suspicious_scores ==
        {k \in DOMAIN esg_scores :
           is_numeric(esg_scores[k]) /\ suspiciously_round(esg_scores[k].v)}
      company_id == Get(d, "company_id", StrV(""))
      mock_indicators ==
        \/ is_mock.v
        \/ names_mock_provider(lower(provider.v))
        \/ Cardinality(suspicious_scores) >= 3
        \/ mock_company_id(company_id.v)
  IN IF provider.t # "str" \/ scores_v.t # "dict" \/ company_id.t # "str"
     THEN Raises
     ELSE IF mock_indicators
     THEN Results(<<ValidationResult("accuracy", "critical", Zero)>>)
     ELSE Results(<<ValidationResult("accuracy", "info", One)>>)

\* the five checks in the order validate_esg_data runs them: the first
\* exception ends the validation of the record
RECURSIVE run_checks(_, _)
run_checks(outcomes, k) ==
  IF k = 0 THEN Results(<< >>)
  ELSE LET before == run_checks(outcomes, k - 1) IN
       IF before.raised \/ outcomes[k].raised THEN Raises
       ELSE Results(before.results \o outcomes[k].results)

esg_checks(d) ==
  <<validate_completeness(d), validate_validity(d), validate_consistency(d),
    validate_timeliness(d), validate_authenticity(d)>>

validate_esg_data(d) == run_checks(esg_checks(d), 5)

\* _validate_generic_data on a non-empty payload dict
validate_generic_payload(d) ==
  LET nulls == {k \in DOMAIN d : d[k].t = "none"} IN
  <<ValidationResult("completeness",
                     IF nulls # {} THEN "warning" ELSE "info",
                     RAdd(One, R(-Cardinality(nulls),
                                 Cardinality(DOMAIN d))))>>

\* the results validate_data collects for one record: an exception of the
\* record's validation becomes one validity error
record_results(d) ==
  IF is_esg_data(d)
  THEN IF validate_esg_data(d).raised
       THEN <<ValidationResult("validity", "error", Zero)>>
       ELSE validate_esg_data(d).results
  ELSE validate_generic_payload(d)

\* variant of report_overall_score: the mean of the dimensions that have
\* results
mean_of_reported_dimensions(dimension_scores, all_results) ==
  LET reported == {all_results[i].dimension : i \in DOMAIN all_results}
  IN RDiv(RSum(dimension_scores, reported), R(Cardinality(reported), 1))

\* sum(dimension_scores.values()) / len(dimension_scores)
report_overall_score(dimension_scores, all_results) ==
  RDiv(RSum(dimension_scores, DOMAIN dimension_scores),
       R(Cardinality(DOMAIN dimension_scores), 1))

\* ProductionDataValidator.validate_data on one payload dict
DataQualityReport(d) ==
  LET all_results == record_results(d)
      dimension_scores == calculate_dimension_scores(all_results)
  IN [overall_score |-> report_overall_score(dimension_scores, all_results),
      dimension_scores |-> dimension_scores,
      validation_results |-> all_results,
      record_count |-> 1]

validate_esg_record ==
  /\ esg_pc = "given"
  /\ check_results' = esg_checks(esg_record)
  /\ quality_report' = DataQualityReport(esg_record)
  /\ esg_pc' = "validated"
  /\ UNCHANGED esg_record
  /\ UNCHANGED notEsg

-----------------------------------------------------------------------------
(* Adapter ingest_data *)

\* the token bucket with its tokens as the float the code keeps
float_rate_limiter(tokens, t) ==
  [tokens |-> tokens, max_tokens |-> R(RateLimit, 1), last_refill |-> t]

\* variant of check_rate_limit_at: the refill is not capped at max_tokens
check_rate_limit_at_uncapped(rl, t) ==
  LET tokens_to_add ==
        RMul(R(t - rl.last_refill, 1), R(RateLimit, WindowSeconds))
      refilled == RAdd(rl.tokens, tokens_to_add)
      granted == RLeq(One, refilled)
  IN [granted |-> granted,
      tokens |-> refilled,
      limiter |-> [rl EXCEPT
                     !.tokens = IF granted THEN RAdd(refilled, R(-1, 1))
                                           ELSE refilled,
                     !.last_refill = t]]

\* _check_rate_limit at time t, in seconds: the verdict, the tokens it saw
\* after the refill, and the bucket it leaves
check_rate_limit_at(rl, t) ==
  LET tokens_to_add ==
        RMul(R(t - rl.last_refill, 1), R(RateLimit, WindowSeconds))
      refilled == RMin(rl.max_tokens, RAdd(rl.tokens, tokens_to_add))
      granted == RLeq(One, refilled)
  IN [granted |-> granted,
      tokens |-> refilled,
      limiter |-> [rl EXCEPT
                     !.tokens = IF granted THEN RAdd(refilled, R(-1, 1))
                                           ELSE refilled,
                     !.last_refill = t]]

\* await asyncio.sleep(1)
SleepSeconds == 1

ScoreKeys == {"environmental", "social", "governance", "combined"}

\* a payload of connector.get_esg_data: its top-level keys, the keys of its
\* esg_scores and metrics dicts, and the type of data_quality's
\* confidence_score ("absent" when the key is missing)
EsgData(keys, scores, metrics, confidence) ==
  [keys |-> keys, scores |-> scores, metrics |-> metrics,
   confidence |-> confidence]

\* the ESGDataPoint(...) expression of ingest_data: KeyError on a missing
\* key, TypeError on a confidence_score that cannot be divided by 100.0
build_data_point(company_id, source, esg_data) ==
  IF /\ {"esg_scores", "metrics", "data_quality"} \subseteq esg_data.keys
     /\ ScoreKeys \subseteq esg_data.scores
     /\ esg_data.confidence # "str"
  THEN Results(<<AdapterPoint(company_id, source, esg_data.metrics,
                              IF esg_data.confidence = "absent"
                              THEN One ELSE R(95, 100))>>)
  ELSE Raises

\* how long one connector call takes, in seconds
FetchSeconds == {0, 1}

\* variant of skip_company: the failure ends the loop
skip_company_and_rest(i, n) == n + 1

\* except Exception: continue
skip_company(i, n) == i + 1

\* variant of after_denial: the denied company is tried again
after_denial_retry(i) == i

\* if not self._check_rate_limit(): ...; continue
after_denial(i) == i + 1

\* one iteration of the loop over company_ids
ingest_company ==
  /\ ingest_pc = "loop"
  /\ ingest_i <= Len(company_ids)
  /\ LET checked == check_rate_limit_at(adapter_rate_limiter, clock)
         answer == connector[ingest_i]
         built == IF answer.raised THEN Raises
                  ELSE build_data_point(company_ids[ingest_i], source_name,
                                        answer.esg_data)
         entry == [i |-> ingest_i, tokens |-> checked.tokens,
                   granted |-> checked.granted, fetched |-> checked.granted]
     IN /\ adapter_rate_limiter' = checked.limiter
        /\ ingest_log' = Append(ingest_log, entry)
        /\ IF ~ checked.granted
           THEN /\ clock' = clock + SleepSeconds
                /\ ingest_i' = after_denial(ingest_i)
                /\ UNCHANGED ingest_points
           ELSE /\ \E seconds \in FetchSeconds : clock' = clock + seconds
                /\ ingest_points' = ingest_points \o built.results
                /\ ingest_i' = IF built.raised
                               THEN skip_company(ingest_i, Len(company_ids))
                               ELSE ingest_i + 1
  /\ UNCHANGED <<company_ids, connector, source_name, ingest_result,
                 ingest_pc>>
  /\ UNCHANGED notIngest

\* return self.validate_data(data_points)
ingest_return ==
  /\ ingest_pc = "loop"
  /\ ingest_i > Len(company_ids)
  /\ ingest_result' =
       Results(validated_prefix(ingest_points, Len(ingest_points)))
  /\ ingest_pc' = "returned"
  /\ UNCHANGED <<company_ids, connector, source_name, adapter_rate_limiter,
                 clock, ingest_i, ingest_points, ingest_log>>
  /\ UNCHANGED notIngest

-----------------------------------------------------------------------------
(* Coroutines sharing one adapter *)

\* variant of may_run: callers are preempted anywhere, as threads would be
may_run_preemptive(c) == TRUE

\* the event loop runs one coroutine at a time and switches only where the
\* running one awaits
may_run(c) == running \in {0, c}

\* _check_rate_limit up to its test: the refill is written to the bucket
\* and the caller sees whether a token is there
caller_refill_check(c) ==
  /\ may_run(c)
  /\ callers[c].pc = "check"
  /\ LET tokens_to_add ==
           RMul(R(clock - adapter_rate_limiter.last_refill, 1),
                R(RateLimit, WindowSeconds))
         refilled == RMin(adapter_rate_limiter.max_tokens,
                          RAdd(adapter_rate_limiter.tokens, tokens_to_add))
     IN /\ adapter_rate_limiter' =
             [adapter_rate_limiter EXCEPT !.tokens = refilled,
                                          !.last_refill = clock]
        /\ callers' = [callers EXCEPT
                         ![c].pc = IF RLeq(One, refilled) THEN "decrement"
                                                          ELSE "sleep"]
  /\ running' = c
  /\ UNCHANGED <<clock, start_tokens>>
  /\ UNCHANGED notCallers

\* self.rate_limiter['tokens'] -= 1; return True; then the connector call
\* and the next iteration, or the return after the last company
caller_decrement(c) ==
  /\ may_run(c)
  /\ callers[c].pc = "decrement"
  /\ adapter_rate_limiter' =
       [adapter_rate_limiter EXCEPT !.tokens = RAdd(@, R(-1, 1))]
  /\ callers' = [callers EXCEPT
                   ![c].granted = @ + 1,
                   ![c].left = @ - 1,
                   ![c].pc = IF callers[c].left = 1 THEN "done" ELSE "check"]
  /\ running' = IF callers[c].left = 1 THEN 0 ELSE c
  /\ UNCHANGED <<clock, start_tokens>>
  /\ UNCHANGED notCallers

\* return False; await asyncio.sleep(1); continue
caller_sleep(c) ==
  /\ may_run(c)
  /\ callers[c].pc = "sleep"
  /\ callers' = [callers EXCEPT
                   ![c].left = @ - 1,
                   ![c].wake = clock + SleepSeconds,
                   ![c].pc = "sleeping"]
  /\ running' = 0
  /\ UNCHANGED <<adapter_rate_limiter, clock, start_tokens>>
  /\ UNCHANGED notCallers

\* the sleep is over and the event loop resumes the coroutine
caller_wake(c) ==
  /\ running = 0
  /\ callers[c].pc = "sleeping"
  /\ clock >= callers[c].wake
  /\ callers' = [callers EXCEPT
                   ![c].pc = IF callers[c].left = 0 THEN "done" ELSE "check"]
  /\ running' = IF callers[c].left = 0 THEN 0 ELSE c
  /\ UNCHANGED <<adapter_rate_limiter, clock, start_tokens>>
  /\ UNCHANGED notCallers

\* a second passes
Elapse ==
  /\ clock < MaxSeconds
  /\ clock' = clock + 1
  /\ UNCHANGED <<adapter_rate_limiter, callers, running, start_tokens>>
  /\ UNCHANGED notCallers

-----------------------------------------------------------------------------
(* Reconciliation engine *)

\* an Optional[ESGDataPoint]: << >> is None, <<p>> is the point p
NoPoint == << >>

\* group_key = f"{data_point.company_id}_{data_point.timestamp.date()}"
GroupKey(p) == <<p.company_id, DateOf(p.timestamp)>>

\* the (source, point) pairs in the order the two nested loops visit them
RECURSIVE FlattenSources(_)
FlattenSources(dbs) ==
  IF dbs = << >> THEN << >>
  ELSE [i \in 1..Len(Head(dbs).points) |->
          <<Head(dbs).source, Head(dbs).points[i]>>]
       \o FlattenSources(Tail(dbs))

\* grouped[group_key][source_name].append(data_point); both dicts keep
\* insertion order and are modelled as sequences
add_to_group(grouped, src, p) ==
  LET gi == {i \in DOMAIN grouped : grouped[i].key = GroupKey(p)} IN
  IF gi = {}
  THEN Append(grouped,
              [key |-> GroupKey(p),
               source_data |-> <<[source |-> src, points |-> <<p>>]>>])
  ELSE LET i == CHOOSE i \in gi : TRUE
           sd == grouped[i].source_data
           si == {j \in DOMAIN sd : sd[j].source = src}
       IN IF si = {}
          THEN [grouped EXCEPT
                  ![i].source_data =
                     Append(sd, [source |-> src, points |-> <<p>>])]
          ELSE LET j == CHOOSE j \in si : TRUE
               IN [grouped EXCEPT
                     ![i].source_data[j].points = Append(@, p)]

RECURSIVE group_fold(_, _)
group_fold(flat, k) ==
  IF k = 0 THEN << >>
  ELSE add_to_group(group_fold(flat, k - 1), flat[k][1], flat[k][2])

group_data_for_reconciliation(dbs) ==
  LET flat == FlattenSources(dbs) IN group_fold(flat, Len(flat))

\* len(source_data) - 1 if len(source_data) > 1 else 0
conflicts_of(source_data) ==
  IF Len(source_data) > 1 THEN Len(source_data) - 1 ELSE 0

\* every point of a group, source by source
RECURSIVE group_points(_)
group_points(source_data) ==
  IF source_data = << >> THEN << >>
  ELSE Head(source_data).points \o group_points(Tail(source_data))

\* point.data_quality_score * 0.6 + point.confidence_score * 0.4
total_confidence(p) ==
  RAdd(RMul(p.data_quality_score, R(6, 10)),
       RMul(p.confidence_score, R(4, 10)))

\* best_point / best_confidence after the first k candidates
RECURSIVE best_so_far(_, _)
best_so_far(cands, k) ==
  IF k = 0 THEN [best_point |-> NoPoint, best_confidence |-> Zero]
  ELSE LET prev == best_so_far(cands, k - 1) IN
       IF RLess(prev.best_confidence, total_confidence(cands[k]))
       THEN [best_point |-> <<cands[k]>>,
             best_confidence |-> total_confidence(cands[k])]
       ELSE prev

confidence_based_reconciliation(source_data) ==
  LET cands == group_points(source_data) IN
  [point |-> best_so_far(cands, Len(cands)).best_point,
   conflicts |-> conflicts_of(source_data),
   anomalies |-> << >>]

priority_order ==
  <<"refinitiv", "bloomberg", "msci", "sustainalytics", "sec_edgar">>

source_priority_reconciliation(source_data) ==
  LET present(name) ==
        {j \in DOMAIN source_data :
           source_data[j].source = name /\ source_data[j].points # << >>}
      hits == {i \in DOMAIN priority_order : present(priority_order[i]) # {}}
      nonempty == {j \in DOMAIN source_data : source_data[j].points # << >>}
  IN IF hits # {}
     THEN LET i == CHOOSE i \in hits : \A h \in hits : i <= h
              j == CHOOSE j \in present(priority_order[i]) : TRUE
          IN [point |-> <<source_data[j].points[1]>>,
              conflicts |-> conflicts_of(source_data),
              anomalies |-> << >>]
     ELSE IF nonempty # {}
     THEN LET j == CHOOSE j \in nonempty : \A h \in nonempty : j <= h
          IN [point |-> <<source_data[j].points[1]>>,
              conflicts |-> conflicts_of(source_data),
              anomalies |-> << >>]
     ELSE [point |-> NoPoint, conflicts |-> 0, anomalies |-> << >>]

\* every field the weighted branch does not set (company_id, timestamp,
\* the intensity/efficiency metrics, revenue, market_cap, sector, region) is
\* copied from the reference point
apply_reconciliation_weights(source_data, weights) ==
  LET nonempty == {j \in DOMAIN source_data : source_data[j].points # << >>}
      used == {j \in nonempty : source_data[j].source \in DOMAIN weights}
      w == [j \in used |-> weights[source_data[j].source]]
      weighted(field) ==
        RSum([j \in used |-> RMul(source_data[j].points[1][field], w[j])],
             used)
      total_weight == RSum(w, used)
  IN IF source_data = << >> \/ DOMAIN weights = {} THEN NoPoint
     ELSE IF nonempty = {} THEN NoPoint
     ELSE LET reference_point ==
                source_data[CHOOSE j \in nonempty :
                              \A h \in nonempty : j <= h].points[1]
          IN IF total_weight = Zero THEN <<reference_point>>
             ELSE <<[reference_point EXCEPT
                       !.data_source = "reconciled_ai",
                       !.environmental_score =
                          RDiv(weighted("environmental_score"), total_weight),
                       !.social_score =
                          RDiv(weighted("social_score"), total_weight),
                       !.governance_score =
                          RDiv(weighted("governance_score"), total_weight),
                       !.combined_score =
                          RDiv(weighted("combined_score"), total_weight),
                       !.data_quality_score =
                          RMin(One,
                               RDiv(RSum(weights, DOMAIN weights),
                                    R(Cardinality(DOMAIN weights), 1))),
                       !.confidence_score = RMin(One, total_weight)]>>

\* the oracle (ai_interface.generate_insights) either raises, returns
\* something that is not a dict (ai_analysis.get then raises), or returns a
\* dict; only the except branch falls back to confidence-based resolution
ai_weighted_reconciliation(source_data, oracle) ==
  IF oracle.kind # "dict"
  THEN confidence_based_reconciliation(source_data)
  ELSE [point |->
          apply_reconciliation_weights(
            source_data,
            IF oracle.has_weights THEN oracle.weights ELSE << >>),
        conflicts |-> conflicts_of(source_data),
        anomalies |-> oracle.anomalies]

\* a record whose data_quality_score or confidence_score is None
unscored(p) ==
  p.data_quality_score = NoneNum \/ p.confidence_score = NoneNum

\* _confidence_based_reconciliation raises TypeError on None * 0.6
confidence_based_raises(source_data) ==
  \E j \in DOMAIN source_data :
    \E i \in DOMAIN source_data[j].points : unscored(source_data[j].points[i])

\* the strategy raises out of its own handlers: the confidence-based one on
\* an unscored record, the ai-weighted one when its fallback does, the
\* source-priority one never
resolution_raises(source_data, strategy, oracle) ==
  IF strategy = "confidence_based"
  THEN confidence_based_raises(source_data)
  ELSE IF strategy = "source_priority" THEN FALSE
  ELSE oracle.kind # "dict" /\ confidence_based_raises(source_data)

\* except Exception: return None, 0, []
reconcile_data_group(source_data, strategy, oracle) ==
  IF resolution_raises(source_data, strategy, oracle)
  THEN [point |-> NoPoint, conflicts |-> 0, anomalies |-> << >>]
  ELSE IF strategy = "ai_weighted"
  THEN ai_weighted_reconciliation(source_data, oracle)
  ELSE IF strategy = "confidence_based"
  THEN confidence_based_reconciliation(source_data)
  ELSE IF strategy = "source_priority"
  THEN source_priority_reconciliation(source_data)
  ELSE ai_weighted_reconciliation(source_data, oracle)

\* mutant of is_single_source: no group takes the pass-through branch
never_single_source(source_data) == FALSE

\* if len(source_data) == 1
is_single_source(source_data) == Len(source_data) = 1

\* the loop over grouped_data.items(), after the first k groups
RECURSIVE reconcile_groups(_, _, _, _)
reconcile_groups(grouped, k, strategy, oracle) ==
  IF k = 0
  THEN [reconciled_points |-> << >>, conflicts_resolved |-> 0,
        anomalies_detected |-> << >>]
  ELSE LET acc == reconcile_groups(grouped, k - 1, strategy, oracle)
           source_data == grouped[k].source_data
       IN IF is_single_source(source_data)
          THEN [acc EXCEPT
                  !.reconciled_points = @ \o source_data[1].points]
          ELSE LET r == reconcile_data_group(source_data, strategy, oracle)
               IN IF r.point # NoPoint
                  THEN [reconciled_points |->
                          acc.reconciled_points \o r.point,
                        conflicts_resolved |->
                          acc.conflicts_resolved + r.conflicts,
                        anomalies_detected |->
                          acc.anomalies_detected \o r.anomalies]
                  ELSE acc

calculate_reconciliation_confidence(reconciled_points) ==
  IF reconciled_points = << >> THEN Zero
  ELSE RMean([i \in DOMAIN reconciled_points |->
                reconciled_points[i].confidence_score])

\* self.source_reliability_scores.get(source, 0.8)
historical_reliability(reliability, source) ==
  IF source \in DOMAIN reliability THEN reliability[source] ELSE R(8, 10)

\* the weight map is keyed by source name
calculate_source_weights(dbs, reliability) ==
  LET idx(name) == CHOOSE i \in DOMAIN dbs : dbs[i].source = name
      weight(name) ==
        LET points == dbs[idx(name)].points IN
        IF points = << >> THEN Zero
        ELSE RMin(One,
               RAdd(RAdd(
                 RMul(RMean([i \in DOMAIN points |->
                               points[i].data_quality_score]), R(4, 10)),
                 RMul(RMean([i \in DOMAIN points |->
                               points[i].confidence_score]), R(4, 10))),
                 RMul(historical_reliability(reliability, name), R(2, 10))))
  IN [name \in {dbs[i].source : i \in DOMAIN dbs} |-> weight(name)]

\* the update of source_reliability_scores in _store_reconciliation_result
updated_reliability(reliability, source_weights) ==
  [name \in DOMAIN reliability \cup DOMAIN source_weights |->
     IF name \notin DOMAIN source_weights THEN reliability[name]
     ELSE IF name \in DOMAIN reliability
     THEN RAdd(RMul(R(8, 10), reliability[name]),
               RMul(R(2, 10), source_weights[name]))
     ELSE source_weights[name]]

\* np.mean raises TypeError on a list holding None: in
\* _calculate_reconciliation_confidence over the reconciled records, in
\* _calculate_source_weights over every record of every source
reconciliation_raises(dbs, strategy, oracle) ==
  LET grouped == group_data_for_reconciliation(dbs)
      acc == reconcile_groups(grouped, Len(grouped), strategy, oracle)
  IN \/ \E i \in DOMAIN acc.reconciled_points :
          acc.reconciled_points[i].confidence_score = NoneNum
     \/ \E j \in DOMAIN dbs :
          \E i \in DOMAIN dbs[j].points : unscored(dbs[j].points[i])

\* the ReconciliationResult reconcile_multi_source_data builds
reconciliation_result_of(dbs, strategy, oracle, reliability) ==
  LET grouped == group_data_for_reconciliation(dbs)
      acc == reconcile_groups(grouped, Len(grouped), strategy, oracle)
  IN [reconciled_data |-> acc.reconciled_points,
      conflicts_resolved |-> acc.conflicts_resolved,
      confidence_score |->
        calculate_reconciliation_confidence(acc.reconciled_points),
      source_weights |-> calculate_source_weights(dbs, reliability),
      anomalies_detected |-> acc.anomalies_detected]

\* the entry _store_reconciliation_result appends to the history
history_entry(result) ==
  [conflicts_resolved |-> result.conflicts_resolved,
   confidence_score |-> result.confidence_score,
   source_weights |-> result.source_weights,
   anomalies_count |-> Len(result.anomalies_detected)]

\* one call of reconcile_multi_source_data on the pending arguments,
\* _store_reconciliation_result included
reconcile_multi_source_data ==
  /\ recon_pc = "idle"
  /\ IF reconciliation_raises(data_by_source, reconciliation_strategy,
                              ai_analysis)
     THEN /\ recon_pc' = "raised"
          /\ UNCHANGED <<reconciliation_result, reconciliation_history,
                         source_reliability_scores>>
     ELSE /\ reconciliation_result' =
               reconciliation_result_of(data_by_source,
                                        reconciliation_strategy,
                                        ai_analysis,
                                        source_reliability_scores)
          /\ reconciliation_history' =
               Append(reconciliation_history,
                      history_entry(reconciliation_result'))
          /\ source_reliability_scores' =
               updated_reliability(source_reliability_scores,
                                   reconciliation_result'.source_weights)
          /\ recon_pc' = "done"
  /\ UNCHANGED <<data_by_source, reconciliation_strategy, ai_analysis,
                 notRecon>>

-----------------------------------------------------------------------------
(* Orchestrator: run_automated_data_management_cycle *)

\* ingest_multi_source_data over the adapters' outcomes: an adapter that
\* raises contributes nothing, the rest is concatenated and deduplicated
\* variant of all_data: the first adapter that raises ends the loop
RECURSIVE all_data_until_failure(_, _)
all_data_until_failure(adapter_outcomes, k) ==
  IF k = 0 THEN << >>
  ELSE IF \E j \in 1..k : adapter_outcomes[j].kind # "data"
  THEN all_data_until_failure(adapter_outcomes, k - 1)
  ELSE all_data_until_failure(adapter_outcomes, k - 1)
         \o adapter_outcomes[k].points

RECURSIVE all_data(_, _)
all_data(adapter_outcomes, k) ==
  IF k = 0 THEN << >>
  ELSE all_data(adapter_outcomes, k - 1)
         \o (IF adapter_outcomes[k].kind = "data"
             THEN adapter_outcomes[k].points ELSE << >>)

ingest_multi_source_data(adapter_outcomes) ==
  deduplicate_data(all_data(adapter_outcomes, Len(adapter_outcomes)))

\* the tasks list: one task per requested source that has an adapter
tasks(sources, adapters) ==
  LET named == SelectSeq(sources, LAMBDA name : name \in DOMAIN adapters)
  IN [k \in DOMAIN named |-> adapters[named[k]]]

\* one call of PetastormMLPipeline.ingest_multi_source_data
ingest_multi_source ==
  /\ multi_pc = "called"
  /\ multi_result' =
       Results(ingest_multi_source_data(tasks(multi_sources, multi_adapters)))
  /\ multi_pc' = "returned"
  /\ UNCHANGED <<multi_sources, multi_adapters>>
  /\ UNCHANGED notMulti

\* the sources the orchestrator asks, in order
CycleSources == <<"refinitiv", "bloomberg">>

\* the loop over the sources in phase 2: ingest_esg_data raising is logged,
\* an empty result is not entered in data_by_source
\* variant of ingested_by_source: only the first source is asked
RECURSIVE ingested_by_source_first_only(_, _)
ingested_by_source_first_only(outcomes, k) ==
  IF k = 0 THEN << >>
  ELSE IF k > 1 THEN ingested_by_source_first_only(outcomes, 1)
  ELSE LET source_data ==
             IF outcomes[1].kind = "raise" THEN << >>
             ELSE ingest_multi_source_data(<<outcomes[1]>>)
       IN IF source_data # << >>
          THEN <<[source |-> CycleSources[1], points |-> source_data]>>
          ELSE << >>

RECURSIVE ingested_by_source(_, _)
ingested_by_source(outcomes, k) ==
  IF k = 0 THEN << >>
  ELSE LET source_data ==
             IF outcomes[k].kind = "raise" THEN << >>
             ELSE ingest_multi_source_data(<<outcomes[k]>>)
       IN ingested_by_source(outcomes, k - 1)
            \o (IF source_data # << >>
                THEN <<[source |-> CycleSources[k], points |-> source_data]>>
                ELSE << >>)

\* for source_data in data_by_source.values(): reconciled_data.extend(...)
RECURSIVE combined(_, _)
combined(dbs, k) ==
  IF k = 0 THEN << >> ELSE combined(dbs, k - 1) \o dbs[k].points

NewCycleResults ==
  [discovery_results |-> FALSE, sources_used |-> << >>,
   ingested_data_points |-> 0, reconciliation_results |-> FALSE,
   quality_results |-> FALSE, ml_dataset |-> << >>,
   total_data_points |-> 0, success |-> FALSE, end_time |-> FALSE,
   error |-> ""]

\* variant of cycle_failed: the handler forgets the end time
cycle_failed_without_end_time(results, exc) ==
  [results EXCEPT !.error = exc, !.success = FALSE]

\* the except branch of the cycle (lines 1141-1146)
cycle_failed(results, exc) ==
  [results EXCEPT !.error = exc, !.success = FALSE, !.end_time = TRUE]

\* Phase 1: data discovery, if enabled
cycle_discovery ==
  /\ cycle_pc = "discovery"
  /\ IF cycle_args.discovery_enabled /\ cycle_env.discovery = "raise"
     THEN /\ cycle_results' = cycle_failed(cycle_results, "discovery")
          /\ cycle_pc' = "done"
          /\ UNCHANGED cycle_stages
     ELSE /\ cycle_results' =
               [cycle_results EXCEPT
                  !.discovery_results = cycle_args.discovery_enabled]
          /\ cycle_stages' =
               IF cycle_args.discovery_enabled
               THEN Append(cycle_stages, "discovery") ELSE cycle_stages
          /\ cycle_pc' = "ingestion"
  /\ UNCHANGED <<cycle_args, cycle_env, cycle_data_by_source,
                 cycle_reconciled>>
  /\ UNCHANGED <<reconVars, storage, guid, notCycle>>

\* Phase 2: ingestion from every source in turn
cycle_ingestion ==
  LET dbs == ingested_by_source(cycle_env.sources, Len(CycleSources)) IN
  /\ cycle_pc = "ingestion"
  /\ cycle_data_by_source' = dbs
  /\ cycle_results' =
       [cycle_results EXCEPT
          !.sources_used = [i \in DOMAIN dbs |-> dbs[i].source],
          !.ingested_data_points = Len(combined(dbs, Len(dbs)))]
  /\ cycle_stages' = Append(cycle_stages, "ingestion")
  /\ cycle_pc' = "reconciliation"
  /\ UNCHANGED <<cycle_args, cycle_env, cycle_reconciled>>
  /\ UNCHANGED <<reconVars, storage, guid, notCycle>>

\* Phase 3: reconciliation by the engine when enabled and more than one
\* source returned data, else the sources' records are concatenated
cycle_reconciliation ==
  /\ cycle_pc = "reconciliation"
  /\ IF cycle_args.reconciliation_enabled /\ Len(cycle_data_by_source) > 1
     THEN LET result ==
                reconciliation_result_of(cycle_data_by_source,
                                         "ai_weighted", cycle_env.oracle,
                                         source_reliability_scores)
          IN /\ data_by_source' = cycle_data_by_source
             /\ reconciliation_strategy' = "ai_weighted"
             /\ ai_analysis' = cycle_env.oracle
             /\ reconciliation_result' = result
             /\ reconciliation_history' =
                  Append(reconciliation_history, history_entry(result))
             /\ source_reliability_scores' =
                  updated_reliability(source_reliability_scores,
                                      result.source_weights)
             /\ recon_pc' = "done"
             /\ cycle_reconciled' = result.reconciled_data
             /\ cycle_results' =
                  [cycle_results EXCEPT !.reconciliation_results = TRUE]
             /\ cycle_stages' = Append(cycle_stages, "reconciliation")
     ELSE /\ cycle_reconciled' =
               combined(cycle_data_by_source, Len(cycle_data_by_source))
          /\ UNCHANGED <<reconVars, cycle_results, cycle_stages>>
  /\ cycle_pc' = "quality_control"
  /\ UNCHANGED <<cycle_args, cycle_env, cycle_data_by_source>>
  /\ UNCHANGED <<storage, guid, notCycle>>

\* Phase 4: quality control when enabled and there are records
cycle_quality_control ==
  /\ cycle_pc = "quality_control"
  /\ IF cycle_args.quality_control_enabled /\ cycle_reconciled # << >>
     THEN IF cycle_env.quality = "raise"
          THEN /\ cycle_results' =
                    cycle_failed(cycle_results, "quality_control")
               /\ cycle_pc' = "done"
               /\ UNCHANGED cycle_stages
          ELSE /\ cycle_results' =
                    [cycle_results EXCEPT !.quality_results = TRUE]
               /\ cycle_stages' = Append(cycle_stages, "quality_control")
               /\ cycle_pc' = "assembly"
     ELSE /\ cycle_pc' = "assembly"
          /\ UNCHANGED <<cycle_results, cycle_stages>>
  /\ UNCHANGED <<cycle_args, cycle_env, cycle_data_by_source,
                 cycle_reconciled>>
  /\ UNCHANGED <<reconVars, storage, guid, notCycle>>

\* Phase 5: the records are written when there are any, then the cycle
\* reports success
cycle_assembly ==
  /\ cycle_pc = "assembly"
  /\ IF cycle_reconciled # << >>
     THEN IF cycle_env.store = "os_error"
          THEN /\ cycle_results' = cycle_failed(cycle_results, "OSError")
               /\ UNCHANGED <<storage, guid, cycle_stages>>
          ELSE LET out == petastorm_dataset_outcome(
                            storage, guid, cycle_reconciled,
                            CycleDatasetName, <<"data_source">>,
                            cycle_env.store)
               IN /\ storage' = out.storage
                  /\ guid' = out.guid
                  /\ cycle_stages' = Append(cycle_stages, "assembly")
                  /\ cycle_results' =
                       IF out.dataset_path.raised
                       THEN cycle_failed(cycle_results,
                                         out.dataset_path.exception)
                       ELSE [cycle_results EXCEPT
                               !.ml_dataset =
                                  <<[dataset_path |-> out.dataset_path.path,
                                     data_points_stored |->
                                       Len(cycle_reconciled)]>>,
                               !.total_data_points = Len(cycle_reconciled),
                               !.success = TRUE,
                               !.end_time = TRUE]
     ELSE /\ cycle_results' =
               [cycle_results EXCEPT !.total_data_points = 0,
                                     !.success = TRUE, !.end_time = TRUE]
          /\ UNCHANGED <<storage, guid, cycle_stages>>
  /\ cycle_pc' = "done"
  /\ UNCHANGED <<cycle_args, cycle_env, cycle_data_by_source,
                 cycle_reconciled>>
  /\ UNCHANGED <<reconVars, notCycle>>

-----------------------------------------------------------------------------
(* Specifications *)

IdleRateLimit ==
  /\ now = 0
  /\ rate_limiter = create_rate_limiter
  /\ rl_result = "none"
  /\ grants = <<0, 0>>

IdleDedup ==
  /\ data = << >>
  /\ deduplicated = << >>
  /\ deduplicated_again = << >>
  /\ dedup_pc = "input"

IdleRecon ==
  /\ data_by_source = << >>
  /\ reconciliation_strategy = "ai_weighted"
  /\ ai_analysis = [kind |-> "raise", has_weights |-> FALSE,
                    weights |-> << >>, anomalies |-> << >>]
  /\ reconciliation_result =
       [reconciled_data |-> << >>, conflicts_resolved |-> 0,
        confidence_score |-> Zero, source_weights |-> << >>,
        anomalies_detected |-> << >>]
  /\ reconciliation_history = << >>
  /\ source_reliability_scores = << >>
  /\ recon_pc = "idle"

IdleValidate ==
  /\ data_points = << >>
  /\ validated_data = << >>
  /\ validate_pc = "fetched"

IdleDataset ==
  /\ storage = [path \in Paths |-> << >>]
  /\ ds_call = [data |-> << >>, dataset_name |-> "", partition_cols |-> << >>,
                engine |-> "", writes |-> 0]
  /\ dataset_path = Returned(PrimaryPath(""))
  /\ read_back = [ok |-> FALSE, rows |-> << >>]
  /\ guid = 0
  /\ ds_pc = "idle"

IdleEsg ==
  /\ esg_record = << >>
  /\ check_results = << >>
  /\ quality_report = [overall_score |-> One, dimension_scores |-> << >>,
                       validation_results |-> << >>, record_count |-> 0]
  /\ esg_pc = "given"

IdleIngest ==
  /\ company_ids = << >>
  /\ connector = << >>
  /\ source_name = "refinitiv"
  /\ adapter_rate_limiter = float_rate_limiter(R(RateLimit, 1), 0)
  /\ clock = 0
  /\ ingest_i = 1
  /\ ingest_points = << >>
  /\ ingest_log = << >>
  /\ ingest_result = Results(<< >>)
  /\ ingest_pc = "idle"

IdleMulti ==
  /\ multi_sources = << >>
  /\ multi_adapters = << >>
  /\ multi_result = Results(<< >>)
  /\ multi_pc = "returned"

IdleCallers ==
  /\ callers = << >>
  /\ running = 0
  /\ start_tokens = R(RateLimit, 1)

IdleCycle ==
  /\ cycle_args = [discovery_enabled |-> TRUE,
                   reconciliation_enabled |-> TRUE,
                   quality_control_enabled |-> TRUE]
  /\ cycle_env = [discovery |-> "ok", sources |-> << >>,
                  oracle |-> [kind |-> "raise", has_weights |-> FALSE,
                              weights |-> << >>, anomalies |-> << >>],
                  quality |-> "ok", store |-> "no_petastorm"]
  /\ cycle_pc = "idle"
  /\ cycle_results = NewCycleResults
  /\ cycle_data_by_source = << >>
  /\ cycle_reconciled = << >>
  /\ cycle_stages = << >>

IdleTrain ==
  /\ ingested = << >>
  /\ validation_split = R(2, 10)
  /\ test_split = R(1, 10)
  /\ engine_runs = <<"no_petastorm", "no_petastorm", "no_petastorm">>
  /\ splits = [train |-> << >>, val |-> << >>, test |-> << >>]
  /\ datasets = NoDatasets
  /\ train_pc = "called"

InitRateLimit ==
  /\ IdleRateLimit /\ IdleDedup /\ IdleRecon /\ IdleValidate /\ IdleDataset
  /\ IdleTrain
  /\ IdleCycle
  /\ IdleEsg
  /\ IdleIngest
  /\ IdleMulti
  /\ IdleCallers

InitDataset ==
  /\ IdleRateLimit /\ IdleDedup /\ IdleRecon /\ IdleValidate /\ IdleDataset
  /\ IdleTrain
  /\ IdleCycle
  /\ IdleEsg
  /\ IdleIngest
  /\ IdleMulti
  /\ IdleCallers

\* create_training_dataset has been called and the ingestion has returned
InitTrain ==
  /\ IdleRateLimit /\ IdleDedup /\ IdleRecon /\ IdleValidate /\ IdleDataset
  /\ IdleCycle
  /\ IdleEsg
  /\ IdleIngest
  /\ IdleMulti
  /\ IdleCallers
  /\ ingested \in {[i \in 1..n |-> IngestedPoint(i)] : n \in 0..MaxIngested}
  /\ \E ratios \in SplitRatios :
       validation_split = ratios[1] /\ test_split = ratios[2]
  /\ engine_runs \in EngineRuns
  /\ splits = [train |-> << >>, val |-> << >>, test |-> << >>]
  /\ datasets = NoDatasets
  /\ train_pc = "called"

NextTrain == create_training_dataset

SpecTrain == InitTrain /\ [][NextTrain]_vars

NextDataset == create_petastorm_dataset \/ read_parquet

SpecDataset == InitDataset /\ [][NextDataset]_vars

InitValidate ==
  /\ IdleRateLimit
  /\ IdleDedup
  /\ IdleRecon
  /\ IdleDataset
  /\ IdleTrain
  /\ IdleCycle
  /\ IdleEsg
  /\ IdleIngest
  /\ IdleMulti
  /\ IdleCallers
  /\ data_points \in SeqsUpTo(FetchedPoints, MaxLen)
  /\ validated_data = << >>
  /\ validate_pc = "fetched"

NextValidate == validate_data

SpecValidate == InitValidate /\ [][NextValidate]_vars

NextRateLimit == check_rate_limit \/ Tick

SpecRateLimit == InitRateLimit /\ [][NextRateLimit]_vars

InitDedup ==
  /\ IdleRateLimit
  /\ IdleRecon
  /\ IdleValidate
  /\ IdleDataset
  /\ IdleTrain
  /\ IdleCycle
  /\ IdleEsg
  /\ IdleIngest
  /\ IdleMulti
  /\ IdleCallers
  /\ data \in SeqsUpTo(DedupPoints, MaxLen)
  /\ deduplicated = << >>
  /\ deduplicated_again = << >>
  /\ dedup_pc = "input"

NextDedup == Deduplicate \/ DeduplicateAgain

SpecDedup == InitDedup /\ [][NextDedup]_vars

\* what the two providers report for one company on two days: the figures of
\* the reconciliation tests, each either with its scores or with quality and
\* confidence 0
RefinitivPoints ==
  {ESGDataPoint("AAPL", t, "refinitiv", R(85, 1), R(78, 1), R(92, 1),
                R(85, 1), R(45, 1), qc[1], qc[2]) :
     t \in {0, 24}, qc \in {<<R(95, 100), R(92, 100)>>, <<Zero, Zero>>}}

BloombergPoints ==
  {ESGDataPoint("AAPL", t, "bloomberg", R(82, 1), R(80, 1), R(88, 1),
                R(833, 10), R(50, 1), qc[1], qc[2]) :
     t \in {0, 24}, qc \in {<<R(88, 100), R(90, 100)>>, <<Zero, Zero>>}}

ReconInputs ==
  {<<[source |-> "refinitiv", points |-> r],
     [source |-> "bloomberg", points |-> b]>> :
     r \in SeqsUpTo(RefinitivPoints, MaxPerSource),
     b \in SeqsUpTo(BloombergPoints, MaxPerSource)}

Strategies == {"ai_weighted", "confidence_based", "source_priority", "other"}

OracleDict(has, w, an) ==
  [kind |-> "dict", has_weights |-> has, weights |-> w, anomalies |-> an]

\* the behaviours of ai_interface.generate_insights
OracleResponses ==
  {[kind |-> "raise", has_weights |-> FALSE, weights |-> << >>,
    anomalies |-> << >>],
   [kind |-> "malformed", has_weights |-> FALSE, weights |-> << >>,
    anomalies |-> << >>],
   OracleDict(FALSE, << >>, << >>),
   OracleDict(TRUE, << >>, << >>),
   OracleDict(TRUE, [n \in {"msci"} |-> R(5, 10)], << >>),
   OracleDict(TRUE, [n \in {"refinitiv", "bloomberg"} |->
                      IF n = "refinitiv" THEN R(7, 10) ELSE R(3, 10)],
              << >>),
   OracleDict(TRUE, [n \in {"refinitiv"} |-> R(6, 10)], <<"outlier">>),
   OracleDict(TRUE, [n \in {"refinitiv", "bloomberg"} |->
                      IF n = "refinitiv" THEN R(9, 10) ELSE R(6, 10)],
              << >>),
   OracleDict(TRUE, [n \in {"refinitiv", "msci"} |->
                      IF n = "refinitiv" THEN R(9, 10) ELSE R(1, 10)],
              << >>),
   OracleDict(TRUE, [n \in {"refinitiv", "bloomberg"} |-> Zero], << >>)}

\* a reconciliation call is pending with arguments drawn from the inputs
InitRecon ==
  /\ IdleRateLimit
  /\ IdleDedup
  /\ IdleValidate
  /\ IdleDataset
  /\ IdleTrain
  /\ IdleCycle
  /\ IdleEsg
  /\ IdleIngest
  /\ IdleMulti
  /\ IdleCallers
  /\ data_by_source \in ReconInputs
  /\ reconciliation_strategy \in Strategies
  /\ ai_analysis \in
       IF reconciliation_strategy \in {"confidence_based", "source_priority"}
       THEN {CHOOSE o \in OracleResponses : o.kind = "raise"}
       ELSE OracleResponses
  /\ reconciliation_result =
       [reconciled_data |-> << >>, conflicts_resolved |-> 0,
        confidence_score |-> Zero, source_weights |-> << >>,
        anomalies_detected |-> << >>]
  /\ reconciliation_history = << >>
  /\ source_reliability_scores = << >>
  /\ recon_pc = "idle"

NextRecon == reconcile_multi_source_data

SpecRecon == InitRecon /\ [][NextRecon]_vars

\* the providers' records for one company on two days, some of them with a
\* score that is None
UnscoredRefinitivPoints ==
  {ESGDataPoint("AAPL", t, "refinitiv", R(85, 1), R(78, 1), R(92, 1),
                R(85, 1), R(45, 1), q, R(92, 100)) :
     t \in {0, 24}, q \in {R(95, 100), NoneNum}}

UnscoredBloombergPoints ==
  {ESGDataPoint("AAPL", t, "bloomberg", R(82, 1), R(80, 1), R(88, 1),
                R(833, 10), R(50, 1), R(88, 100), c) :
     t \in {0, 24}, c \in {R(90, 100), NoneNum}}

\* a reconciliation call is pending on records that may be unscored
InitReconUnscored ==
  /\ IdleRateLimit
  /\ IdleDedup
  /\ IdleValidate
  /\ IdleDataset
  /\ IdleTrain
  /\ IdleCycle
  /\ IdleEsg
  /\ IdleIngest
  /\ IdleMulti
  /\ IdleCallers
  /\ data_by_source \in
       {<<[source |-> "refinitiv", points |-> r],
          [source |-> "bloomberg", points |-> b]>> :
          r \in SeqsUpTo(UnscoredRefinitivPoints, MaxPerSource),
          b \in SeqsUpTo(UnscoredBloombergPoints, MaxPerSource)}
  /\ reconciliation_strategy \in Strategies
  /\ ai_analysis \in
       IF reconciliation_strategy \in {"confidence_based", "source_priority"}
       THEN {CHOOSE o \in OracleResponses : o.kind = "raise"}
       ELSE {o \in OracleResponses :
               o.kind = "raise" \/ "bloomberg" \in DOMAIN o.weights}
  /\ reconciliation_result =
       [reconciled_data |-> << >>, conflicts_resolved |-> 0,
        confidence_score |-> Zero, source_weights |-> << >>,
        anomalies_detected |-> << >>]
  /\ reconciliation_history = << >>
  /\ source_reliability_scores = << >>
  /\ recon_pc = "idle"

SpecReconUnscored == InitReconUnscored /\ [][NextRecon]_vars

\* the records one adapter can return: two companies on one day
CyclePoints(source) ==
  {ESGDataPoint(c, 0, source, R(85, 1), R(78, 1), R(92, 1), R(85, 1),
                NoneNum, IF source = "refinitiv" THEN R(95, 100)
                         ELSE R(88, 100), R(9, 10)) :
     c \in {"AAPL", "MSFT"}}

\* what asking one source can give: ingest_esg_data raises, the adapter
\* raises inside it, or the adapter returns records
SourceOutcomes(source) ==
  {[kind |-> "raise", points |-> << >>],
   [kind |-> "adapter_raises", points |-> << >>]}
    \cup {[kind |-> "data", points |-> ps] :
            ps \in SeqsUpTo(CyclePoints(source), MaxFetched)}

CycleOracles ==
  {o \in OracleResponses :
     \/ o.kind = "raise"
     \/ o.kind = "dict" /\ o.has_weights
          /\ DOMAIN o.weights = {"refinitiv", "bloomberg"}
          /\ o.weights["refinitiv"] # Zero}

\* the flags a caller can pass
CycleArgs ==
  [discovery_enabled : BOOLEAN, reconciliation_enabled : BOOLEAN,
   quality_control_enabled : BOOLEAN]

\* the ways the collaborators can answer during one cycle
CycleEnvs ==
  [discovery : {"ok", "raise"},
   sources : {<<r, b>> : r \in SourceOutcomes("refinitiv"),
                         b \in SourceOutcomes("bloomberg")},
   oracle : CycleOracles,
   quality : {"ok", "raise"},
   store : {"no_petastorm", "ok", "os_error"}]

\* the call: cycle_results is initialised (lines 1016-1024) and the try
\* block is entered
run_automated_data_management_cycle ==
  /\ cycle_pc = "idle"
  /\ cycle_args' \in CycleArgs
  /\ cycle_env' \in CycleEnvs
  /\ cycle_results' = NewCycleResults
  /\ cycle_pc' = "discovery"
  /\ UNCHANGED <<cycle_data_by_source, cycle_reconciled, cycle_stages>>
  /\ UNCHANGED <<reconVars, storage, guid, notCycle>>

\* a fresh orchestrator
InitCycle ==
  /\ IdleRateLimit /\ IdleDedup /\ IdleRecon /\ IdleValidate /\ IdleDataset
  /\ IdleTrain
  /\ IdleCycle
  /\ IdleEsg
  /\ IdleIngest
  /\ IdleMulti
  /\ IdleCallers

NextCycle ==
  \/ run_automated_data_management_cycle
  \/ cycle_discovery
  \/ cycle_ingestion
  \/ cycle_reconciliation
  \/ cycle_quality_control
  \/ cycle_assembly

SpecCycle == InitCycle /\ [][NextCycle]_vars

\* record ages in hours around the two thresholds
Ages == {-1, 0, 12, 24, 25, 96, 168, 169, 200}

CompanyIdEntries ==
  {<< >>, "company_id" :> NoneV, "company_id" :> StrV("AAPL"),
   "company_id" :> StrV("mock_co_1")}

TimestampEntries ==
  {<< >>, "timestamp" :> NoneV,
   "timestamp" :> StrV([format |-> "empty", age |-> 0]),
   "timestamp" :> StrV([format |-> "garbage", age |-> 0])}
    \cup {"timestamp" :> StrV([format |-> "naive", age |-> a]) : a \in Ages}
    \cup {"timestamp" :> StrV([format |-> "aware", age |-> a]) :
            a \in {12, 200}}
    \cup {"timestamp" :> TimeV([format |-> "naive", age |-> a]) :
            a \in {12, 200}}

PillarScores(env, soc, gov, comb) ==
  [environmental |-> env, social |-> soc, governance |-> gov,
   combined |-> comb]

EsgScoresEntries ==
  {<< >>, "esg_scores" :> NoneV, "esg_scores" :> DictV(<< >>),
   "esg_scores" :> DictV(PillarScores(NumV(R(853, 10)), NumV(R(782, 10)),
                                      NumV(R(921, 10)), NumV(R(852, 10)))),
   "esg_scores" :> DictV([environmental |-> NumV(R(853, 10)),
                          social |-> NumV(R(782, 10))]),
   "esg_scores" :> DictV(PillarScores(NumV(R(853, 10)), NumV(R(782, 10)),
                                      NoneV, NumV(R(852, 10)))),
   "esg_scores" :> DictV(PillarScores(NumV(R(85, 1)), NumV(R(78, 1)),
                                      NumV(R(92, 1)), NumV(R(85, 1)))),
   "esg_scores" :> DictV(PillarScores(NumV(R(150, 1)), NumV(R(782, 10)),
                                      NumV(R(921, 10)), NumV(R(1101, 10)))),
   "esg_scores" :> DictV(PillarScores(NumV(R(853, 10)), NumV(R(782, 10)),
                                      NumV(R(921, 10)), NumV(R(503, 10))))}

OtherEntries ==
  {src @@ met @@ dq @@ mock @@ prov :
     src \in {<< >>, "data_source" :> StrV("refinitiv")},
     met \in {<< >>,
              "metrics" :> DictV([carbon_intensity |-> NumV(R(452, 10))]),
              "metrics" :> DictV([carbon_intensity |-> NumV(R(20005, 10))])},
     dq \in {<< >>,
             "data_quality" :> DictV([confidence_score |-> NumV(R(150, 1))])},
     mock \in {<< >>, "is_mock" :> BoolV(TRUE)},
     prov \in {<< >>, "provider" :> StrV("Mock Provider")}}

\* the payloads handed to the validator
EsgRecords ==
  {c @@ t @@ e @@ o :
     c \in CompanyIdEntries, t \in TimestampEntries,
     e \in EsgScoresEntries, o \in OtherEntries} \ {<< >>}

InitEsg ==
  /\ IdleRateLimit /\ IdleDedup /\ IdleRecon /\ IdleValidate /\ IdleDataset
  /\ IdleTrain
  /\ IdleCycle
  /\ IdleIngest
  /\ IdleMulti
  /\ IdleCallers
  /\ esg_record \in EsgRecords
  /\ check_results = << >>
  /\ quality_report = [overall_score |-> One, dimension_scores |-> << >>,
                       validation_results |-> << >>, record_count |-> 0]
  /\ esg_pc = "given"

NextEsg == validate_esg_record

SpecEsg == InitEsg /\ [][NextEsg]_vars

\* the connector raises, or returns a payload: complete, without the
\* governance score, or with a confidence score that is a string
ConnectorAnswers ==
  {[raised |-> TRUE, esg_data |-> EsgData({}, {}, {}, "absent")]}
    \cup
  {[raised |-> FALSE, esg_data |-> e] :
     e \in {EsgData({"esg_scores", "metrics", "data_quality"}, ScoreKeys,
                    {"carbon_intensity"}, "num"),
            EsgData({"esg_scores", "metrics", "data_quality"},
                    ScoreKeys \ {"governance"}, {}, "num"),
            EsgData({"esg_scores", "metrics", "data_quality"}, ScoreKeys,
                    {}, "str")}}

\* the bucket when the call starts: empty, one token, or full
StartTokens == {Zero, One, R(RateLimit, 1)}

InitIngest ==
  /\ IdleRateLimit /\ IdleDedup /\ IdleRecon /\ IdleValidate /\ IdleDataset
  /\ IdleTrain
  /\ IdleCycle
  /\ IdleEsg
  /\ IdleMulti
  /\ IdleCallers
  /\ company_ids \in SeqsUpTo({"AAPL", "MSFT"}, MaxCompanies)
  /\ connector \in [DOMAIN company_ids -> ConnectorAnswers]
  /\ source_name \in {"refinitiv", "bloomberg"}
  /\ \E tokens \in StartTokens :
       adapter_rate_limiter = float_rate_limiter(tokens, 0)
  /\ clock = 0
  /\ ingest_i = 1
  /\ ingest_points = << >>
  /\ ingest_log = << >>
  /\ ingest_result = Results(<< >>)
  /\ ingest_pc = "loop"

NextIngest == ingest_company \/ ingest_return

SpecIngest == InitIngest /\ [][NextIngest]_vars

\* what one adapter's ingest_data gives: it raises, or returns records
AdapterOutcomes(source) ==
  {o \in SourceOutcomes(source) : o.kind # "raise"}

\* the sources a caller asks for; "msci" has no adapter
SourceLists ==
  {<<"refinitiv", "bloomberg">>, <<"bloomberg", "refinitiv">>,
   <<"refinitiv">>, <<"msci", "bloomberg">>}

InitMulti ==
  /\ IdleRateLimit /\ IdleDedup /\ IdleRecon /\ IdleValidate /\ IdleDataset
  /\ IdleTrain
  /\ IdleCycle
  /\ IdleEsg
  /\ IdleIngest
  /\ IdleCallers
  /\ multi_sources \in SourceLists
  /\ \E r \in AdapterOutcomes("refinitiv"), b \in AdapterOutcomes("bloomberg") :
       multi_adapters =
         [name \in {"refinitiv", "bloomberg"} |->
            IF name = "refinitiv" THEN r ELSE b]
  /\ multi_result = Results(<< >>)
  /\ multi_pc = "called"

NextMulti == ingest_multi_source

SpecMulti == InitMulti /\ [][NextMulti]_vars

Callers == {1, 2}

\* two ingest_data calls on one adapter, each with a company list, on a
\* bucket that is empty or holds one or two tokens
InitCallers ==
  /\ IdleRateLimit /\ IdleDedup /\ IdleRecon /\ IdleValidate /\ IdleDataset
  /\ IdleTrain
  /\ IdleCycle
  /\ IdleEsg
  /\ IdleMulti
  /\ company_ids = << >>
  /\ connector = << >>
  /\ source_name = "refinitiv"
  /\ start_tokens \in {Zero, One, R(2, 1)}
  /\ adapter_rate_limiter = float_rate_limiter(start_tokens, 0)
  /\ clock = 0
  /\ ingest_i = 1
  /\ ingest_points = << >>
  /\ ingest_log = << >>
  /\ ingest_result = Results(<< >>)
  /\ ingest_pc = "idle"
  /\ callers \in [Callers -> {[pc |-> "check", left |-> n, wake |-> 0,
                               granted |-> 0] : n \in 1..MaxCompanies}]
  /\ running = 0

NextCallers ==
  \/ \E c \in Callers : caller_refill_check(c)
  \/ \E c \in Callers : caller_decrement(c)
  \/ \E c \in Callers : caller_sleep(c)
  \/ \E c \in Callers : caller_wake(c)
  \/ Elapse

SpecCallers == InitCallers /\ [][NextCallers]_vars

\* True returns inside the 60-second window ending at now
GrantsInWindow == grants[1] + grants[2]

-----------------------------------------------------------------------------
(* C1 *)

\* C1 as stated: with limit 100 per minute, no rolling 60-second window
\* holds more than 100 calls that returned True.
C1_AtMostLimitPerWindow == GrantsInWindow <= RateLimit

\* C1 (amended): the calls that return True inside any rolling 60-second
\* window never exceed the bucket capacity plus one window of refill, that
\* is 2 * limit = 200.
C1_AtMostCapacityPlusRefill ==
  GrantsInWindow <= rate_limiter.max_tokens + RateLimit

\* a window that already holds more than `limit` True returns
C1_Witness == rl_result = "True" /\ GrantsInWindow > RateLimit

-----------------------------------------------------------------------------
(* C2 *)

\* C2: a call refills lazily, then returns True and takes exactly one token
\* iff at least one token is available, else returns False and takes none;
\* from the full bucket with no time elapsed exactly the first N calls
\* succeed (a denial is only ever seen after N grants, never an N+1st grant).
C2_GrantIffToken ==
  /\ [](now = 0 =>
          /\ grants[1] <= RateLimit
          /\ rate_limiter.tokens = RateLimit - grants[1]
          /\ (rl_result = "False" => grants[1] = RateLimit))
  /\ [][now' = now =>
          LET avail == Min(rate_limiter.max_tokens,
                           rate_limiter.tokens
                             + ((now - rate_limiter.last_refill) * RateLimit)
                                 \div WindowSeconds)
          IN /\ (rl_result' = "True") <=> (avail >= 1)
             /\ (rl_result' = "False") <=> (avail < 1)
             /\ rate_limiter'.tokens = IF avail >= 1 THEN avail - 1 ELSE avail
             /\ grants'[1] = IF avail >= 1 THEN grants[1] + 1 ELSE grants[1]]_vars

\* the N+1st call of a burst from the full bucket has just been denied
C2_Witness ==
  now = 0 /\ rl_result = "False" /\ grants[1] = RateLimit

-----------------------------------------------------------------------------
(* C6 *)

\* the first position in d holding a record of key k with the highest
\* data_quality_score of that key
BestIndex(d, k) ==
  CHOOSE i \in DOMAIN d :
    /\ DedupKey(d[i]) = k
    /\ \A j \in DOMAIN d :
         DedupKey(d[j]) = k =>
           /\ RLeq(d[j].data_quality_score, d[i].data_quality_score)
           /\ (d[j].data_quality_score = d[i].data_quality_score => i <= j)

\* C6: _deduplicate_data returns exactly one record per distinct
\* (company_id, date-of-timestamp) key of the input, namely the record with
\* the highest data_quality_score of its group, the first such record in
\* input order on a tie.
C6_OnePerKeyBestFirst ==
  dedup_pc # "input" =>
    LET keys == {DedupKey(data[i]) : i \in DOMAIN data} IN
    /\ Len(deduplicated) = Cardinality(keys)
    /\ \A k \in keys :
         \E j \in DOMAIN deduplicated :
           /\ deduplicated[j] = data[BestIndex(data, k)]
           /\ \A m \in DOMAIN deduplicated :
                DedupKey(deduplicated[m]) = k => m = j

\* a group of three with a tie for the highest score has been deduplicated
C6_Witness ==
  /\ dedup_pc = "once"
  /\ Len(data) = 3
  /\ Len(deduplicated) = 1
  /\ data[1].data_quality_score = data[3].data_quality_score
  /\ RLess(data[2].data_quality_score, data[1].data_quality_score)
  /\ data[1] # data[3]

-----------------------------------------------------------------------------
(* C7 *)

\* C7: deduplication is idempotent: deduplicating the deduplicated list
\* yields the same set of records.
C7_Idempotent ==
  dedup_pc = "twice" => Range(deduplicated_again) = Range(deduplicated)

\* a list with duplicates has been deduplicated twice
C7_Witness ==
  /\ dedup_pc = "twice"
  /\ Len(deduplicated) < Len(data)
  /\ Len(deduplicated) >= 2

-----------------------------------------------------------------------------
(* The groups of the last reconciliation call, read off its argument and
   its result *)

InputKeys ==
  UNION {{GroupKey(data_by_source[i].points[j]) :
            j \in DOMAIN data_by_source[i].points} :
           i \in DOMAIN data_by_source}

\* the records source i supplied for group k, in input order
PointsOf(i, k) ==
  SelectSeq(data_by_source[i].points, LAMBDA p : GroupKey(p) = k)

Contributors(k) == {i \in DOMAIN data_by_source : PointsOf(i, k) # << >>}

MultiSourceKeys == {k \in InputKeys : Cardinality(Contributors(k)) > 1}

\* the records of the result that belong to group k
OutputOf(k) ==
  SelectSeq(reconciliation_result.reconciled_data,
            LAMBDA p : GroupKey(p) = k)

\* sum over the groups in K of (contributing sources - 1)
RECURSIVE ConflictsIn(_)
ConflictsIn(K) ==
  IF K = {} THEN 0
  ELSE LET k == CHOOSE k \in K : TRUE
       IN (Cardinality(Contributors(k)) - 1) + ConflictsIn(K \ {k})

-----------------------------------------------------------------------------
(* C4 *)

\* C4: for every strategy, a group to which exactly one source contributed
\* appears in reconciled_data exactly as that source supplied it, and only
\* multi-source groups add to conflicts_resolved.
C4_SingleSourceUnchanged ==
  recon_pc = "done" =>
    /\ \A k \in InputKeys :
         Cardinality(Contributors(k)) = 1 =>
           OutputOf(k) = PointsOf(CHOOSE i \in Contributors(k) : TRUE, k)
    /\ reconciliation_result.conflicts_resolved <= ConflictsIn(MultiSourceKeys)
    /\ (MultiSourceKeys = {} => reconciliation_result.conflicts_resolved = 0)

\* a call that mixed a single-source group holding a zero-scored record with
\* a resolved multi-source group
C4_Witness ==
  /\ recon_pc = "done"
  /\ reconciliation_strategy = "confidence_based"
  /\ reconciliation_result.conflicts_resolved = 1
  /\ \E k \in InputKeys :
       /\ Cardinality(Contributors(k)) = 1
       /\ OutputOf(k) # << >>
       /\ OutputOf(k)[1].data_quality_score = Zero

-----------------------------------------------------------------------------
(* C5 *)

\* (v_a * w_a + v_b * w_b) / (w_a + w_b) for one field of group k
WeightedAverage(k, field) ==
  LET w == ai_analysis.weights
      a == PointsOf(1, k)[1]
      b == PointsOf(2, k)[1]
      wa == w[data_by_source[1].source]
      wb == w[data_by_source[2].source]
  IN RDiv(RAdd(RMul(a[field], wa), RMul(b[field], wb)), RAdd(wa, wb))

\* C5: ai-weighted reconciliation of a group with sources A and B and
\* oracle weights w_a, w_b yields a record whose every numeric field (the
\* pillar scores, the combined score and the intensity metric) is the
\* weighted average of the two sources' values.
C5_EveryNumericFieldWeighted ==
  ( /\ recon_pc = "done"
    /\ reconciliation_strategy = "ai_weighted"
    /\ ai_analysis.kind = "dict" /\ ai_analysis.has_weights
    /\ {data_by_source[i].source : i \in DOMAIN data_by_source}
         \subseteq DOMAIN ai_analysis.weights
    /\ RSum(ai_analysis.weights, DOMAIN ai_analysis.weights) # Zero )
  => \A k \in MultiSourceKeys :
       (Len(PointsOf(1, k)) = 1 /\ Len(PointsOf(2, k)) = 1) =>
         /\ Len(OutputOf(k)) = 1
         /\ \A field \in {"environmental_score", "social_score",
                          "governance_score", "combined_score",
                          "carbon_intensity"} :
              OutputOf(k)[1][field] = WeightedAverage(k, field)

-----------------------------------------------------------------------------
(* C9 *)

\* the candidates of group k, source by source
Candidates(k) ==
  group_points([i \in DOMAIN data_by_source |->
                  [source |-> data_by_source[i].source,
                   points |-> PointsOf(i, k)]])

\* C9: confidence-based reconciliation of a multi-source group returns the
\* candidate with the maximum 0.6*quality + 0.4*confidence and reports
\* (contributing sources - 1) conflicts.
C9_MaxScoreWins ==
  (recon_pc = "done" /\ reconciliation_strategy = "confidence_based") =>
    /\ \A k \in MultiSourceKeys :
         /\ Len(OutputOf(k)) = 1
         /\ \E i \in DOMAIN Candidates(k) :
              /\ OutputOf(k)[1] = Candidates(k)[i]
              /\ \A j \in DOMAIN Candidates(k) :
                   RLeq(total_confidence(Candidates(k)[j]),
                        total_confidence(Candidates(k)[i]))
    /\ reconciliation_result.conflicts_resolved = ConflictsIn(MultiSourceKeys)

-----------------------------------------------------------------------------
(* C10 *)

\* the oracle raised or its response carries no usable weights
OracleUnusable ==
  \/ ai_analysis.kind # "dict"
  \/ ~ ai_analysis.has_weights
  \/ DOMAIN ai_analysis.weights
       \cap {data_by_source[i].source : i \in DOMAIN data_by_source} = {}

\* C10: under the ai-weighted strategy, when the oracle raises or returns an
\* unusable response, every group yields what confidence-based resolution
\* picks.
C10_UnusableOracleFallsBack ==
  (recon_pc = "done" /\ reconciliation_strategy = "ai_weighted"
     /\ OracleUnusable) =>
    LET grouped == group_data_for_reconciliation(data_by_source) IN
    reconciliation_result.reconciled_data =
      reconcile_groups(grouped, Len(grouped), "confidence_based",
                       ai_analysis).reconciled_points

-----------------------------------------------------------------------------
(* C3 *)

-----------------------------------------------------------------------------
(* C8 *)

\* the number of times x occurs in the sequence s
Count(s, x) == Cardinality({i \in DOMAIN s : s[i] = x})

\* the same records with the same multiplicities, in any order
SameRecords(a, b) ==
  /\ Len(a) = Len(b)
  /\ \A x \in Range(a) \cup Range(b) : Count(a, x) = Count(b, x)

\* the running call went through the Parquet fallback writer
UsedFallback == ds_pc # "idle" /\ ds_call.engine # "ok"

\* C8: whenever the primary engine is unavailable or its write fails,
\* create_petastorm_dataset returns the fallback directory, and reading that
\* directory back yields the records written: the same count and the same
\* field values, whatever the order and the partition columns.
C8_FallbackRoundTrip ==
  UsedFallback =>
    /\ ~ dataset_path.raised
    /\ dataset_path.path = FallbackPath(ds_call.dataset_name)
    /\ ds_pc = "read" =>
         /\ read_back.ok
         /\ SameRecords(read_back.rows, ds_call.data)

-----------------------------------------------------------------------------
(* C11 *)

\* C11: after every reconciliation cycle, each source of the cycle's weight
\* map has reliability 0.8 * old + 0.2 * latest weight, where old is 0.8 for
\* a source that was never updated before.
C11_ReliabilityIsSeededEMA ==
  [][recon_pc' = "done" /\ recon_pc = "idle" =>
       \A name \in DOMAIN reconciliation_result'.source_weights :
         source_reliability_scores'[name] =
           RAdd(RMul(R(8, 10),
                     historical_reliability(source_reliability_scores, name)),
                RMul(R(2, 10),
                     reconciliation_result'.source_weights[name]))]_vars

-----------------------------------------------------------------------------
(* C12 *)

\* Python's round(x) for x >= 0: to the nearest integer, ties to even
RoundHalfEven(x) ==
  LET fl == x.n \div x.d
      twice == 2 * (x.n - fl * x.d)
  IN IF twice < x.d THEN fl
     ELSE IF twice > x.d THEN fl + 1
     ELSE IF fl % 2 = 0 THEN fl ELSE fl + 1

\* the split ratios are valid: validation_split + test_split < 1
ValidRatios == RLess(RAdd(validation_split, test_split), One)

\* C12: n records split with valid ratios give round(n * test_split)
\* records to test, round(n * validation_split) to validation and the
\* remaining n - test - validation to train.
C12_SplitSizesAreRounded ==
  (train_pc = "done" /\ ingested # << >> /\ ValidRatios) =>
    LET n == Len(ingested)
        test_n == RoundHalfEven(RMul(R(n, 1), test_split))
        val_n == RoundHalfEven(RMul(R(n, 1), validation_split))
    IN /\ Len(splits.test) = test_n
       /\ Len(splits.val) = val_n
       /\ Len(splits.train) = n - test_n - val_n

-----------------------------------------------------------------------------
(* C13 *)

\* C13: a call with validation_split + test_split >= 1 ends with a
\* configuration error and has written no train, validation or test
\* dataset (stated for calls whose ingestion returned records).
C13_InvalidRatiosRejected ==
  (train_pc = "done" /\ ~ ValidRatios /\ ingested # << >>) =>
    /\ datasets.raised
    /\ datasets.exception = "ConfigurationError"
    /\ \A path \in Paths : storage[path] = << >>

-----------------------------------------------------------------------------
(* C14 *)

\* the ingestion phase ran and no source yielded a record
AllSourcesFailed ==
  /\ "ingestion" \in Range(cycle_stages)
  /\ cycle_data_by_source = << >>

\* C14: when every source yields zero records in the ingestion stage the
\* cycle is aborted as a failure: it does not end reporting success.
C14_AllSourcesFailedAborts ==
  (cycle_pc = "done" /\ AllSourcesFailed) =>
    /\ ~ cycle_results.success
    /\ cycle_results.error # ""

-----------------------------------------------------------------------------
(* C15 *)

\* C15: a failure of a source, of discovery, of the oracle, of quality
\* control or of dataset writing ends in the returned report: a cycle that
\* has not finished is in one of its phases, and the report of a finished
\* cycle has an end time and a success flag that is False exactly when a
\* failure was caught.
C15_ReportAlwaysReturned ==
  /\ cycle_pc \in {"idle", "discovery", "ingestion", "reconciliation",
                   "quality_control", "assembly", "done"}
  /\ cycle_pc = "done" =>
       /\ cycle_results.end_time
       /\ cycle_results.success <=> cycle_results.error = ""

\* a cycle that lost a source in ingestion and then failed in quality
\* control, and still returned its report
C15_Witness ==
  /\ cycle_pc = "done"
  /\ \E i \in DOMAIN cycle_env.sources : cycle_env.sources[i].kind = "raise"
  /\ cycle_results.error = "quality_control"
  /\ cycle_results.end_time
  /\ ~ cycle_results.success

-----------------------------------------------------------------------------
(* C16 *)

\* the cycle wrote a dataset without running the reconciliation engine
WrittenWithoutReconciliation ==
  /\ cycle_pc = "done"
  /\ cycle_results.ml_dataset # << >>
  /\ ~ cycle_results.reconciliation_results

\* C16: when the reconciliation stage is skipped, the record set handed to
\* the dataset writer holds no two records with the same company_id and
\* date of timestamp.
C16_SkippedReconciliationIsDeduplicated ==
  WrittenWithoutReconciliation =>
    \A i, j \in DOMAIN cycle_reconciled :
      DedupKey(cycle_reconciled[i]) = DedupKey(cycle_reconciled[j]) => i = j

-----------------------------------------------------------------------------
(* C17 *)

\* the record's timestamp denotes an instant, so the record has an age
HasAge ==
  /\ "timestamp" \in DOMAIN esg_record
  /\ esg_record["timestamp"].t \in {"str", "datetime"}
  /\ esg_record["timestamp"].v.format \in {"naive", "aware"}

\* the verdict the timeliness check gave
TimelinessVerdict == check_results[4].results[1]

\* C17: the timeliness check maps the record age in hours to its verdict:
\* below 0 score 0 with severity error, from 0 to 24 score 1, above 24 up
\* to 168 the score interpolated linearly from 1 down to 0, above 168 score
\* 0 with severity error.
C17_TimelinessByAge ==
  (esg_pc = "validated" /\ HasAge) =>
    LET age == esg_record["timestamp"].v.age IN
    /\ ~ check_results[4].raised
    /\ age < 0 =>
         TimelinessVerdict.score = Zero
           /\ TimelinessVerdict.severity = "error"
    /\ (0 <= age /\ age <= 24) => TimelinessVerdict.score = One
    /\ (24 < age /\ age <= 168) =>
         TimelinessVerdict.score = R(168 - age, 144)
    /\ age > 168 =>
         TimelinessVerdict.score = Zero
           /\ TimelinessVerdict.severity = "error"

-----------------------------------------------------------------------------
(* C18 *)

\* the required identity fields are all present and not None
IdentityFieldsPresent ==
  \A f \in {"company_id", "timestamp", "esg_scores", "data_source"} :
    f \in DOMAIN esg_record /\ esg_record[f].t # "none"

\* the pillar scores that are absent or None in the record
MissingPillars ==
  {p \in {"environmental", "social", "governance"} :
     \/ p \notin DOMAIN esg_record["esg_scores"].v
     \/ esg_record["esg_scores"].v[p].t = "none"}

\* the verdict the completeness check gave
CompletenessVerdict == check_results[1].results[1]

\* C18: with every required identity field present the completeness check
\* scores 1 - (missing pillar scores / 3), with severity warning when a
\* pillar is missing; with a required identity field missing it scores 0
\* with severity error.
C18_CompletenessScore ==
  esg_pc = "validated" =>
    /\ ~ check_results[1].raised
    /\ Len(check_results[1].results) = 1
    /\ IF IdentityFieldsPresent
       THEN /\ CompletenessVerdict.score =
                 R(3 - Cardinality(MissingPillars), 3)
            /\ MissingPillars # {} =>
                 CompletenessVerdict.severity = "warning"
       ELSE /\ CompletenessVerdict.score = Zero
            /\ CompletenessVerdict.severity = "error"

\* a record with its identity fields whose governance score is missing:
\* completeness 2/3 with a warning
C18_Witness ==
  /\ esg_pc = "validated"
  /\ IdentityFieldsPresent
  /\ MissingPillars = {"governance"}
  /\ CompletenessVerdict.score = R(2, 3)
  /\ CompletenessVerdict.severity = "warning"

-----------------------------------------------------------------------------
(* C19 *)

FiveDimensions ==
  {"completeness", "validity", "consistency", "timeliness", "accuracy"}

\* C19: the overall score of the report equals the mean of the five
\* dimension scores completeness, validity, consistency, timeliness and
\* accuracy, and of nothing else.
C19_OverallIsMeanOfFive ==
  esg_pc = "validated" =>
    quality_report.overall_score =
      RDiv(RSum(quality_report.dimension_scores, FiveDimensions), R(5, 1))

-----------------------------------------------------------------------------
(* C20 *)

\* the loop consulted the rate limiter for the company at position i
Visited(i) == \E k \in DOMAIN ingest_log : ingest_log[k].i = i

\* the company at position i passed the rate limiter
PassedLimiter(i) ==
  \E k \in DOMAIN ingest_log : ingest_log[k].i = i /\ ingest_log[k].granted

\* the connector was called for the company at position i
Fetched(i) ==
  \E k \in DOMAIN ingest_log : ingest_log[k].i = i /\ ingest_log[k].fetched

\* the fetch or the mapping fails for the company at position i
FetchOrMappingFails(i) ==
  \/ connector[i].raised
  \/ build_data_point(company_ids[i], source_name,
                      connector[i].esg_data).raised

\* the record of the company at position i meets the quality threshold
MeetsThreshold(i) ==
  LET built == build_data_point(company_ids[i], source_name,
                                connector[i].esg_data)
  IN meets_threshold(overall_score(to_dict(built.results[1])))

\* the positions whose records the call has to return, in list order
DuePositions ==
  SelectSeq([i \in DOMAIN company_ids |-> i],
            LAMBDA i : /\ PassedLimiter(i)
                       /\ ~ FetchOrMappingFails(i)
                       /\ MeetsThreshold(i))

\* C20: within one ingest_data call a fetch or mapping failure for one
\* company is caught and the company skipped: the call does not raise, every
\* company of the list is still put to the rate limiter, every company that
\* passes it is fetched, and the call returns exactly the records of the
\* companies that passed, were fetched and mapped, and meet the threshold.
C20_FailureSkipsOnlyThatCompany ==
  ingest_pc = "returned" =>
    /\ ~ ingest_result.raised
    /\ \A i \in DOMAIN company_ids :
         Visited(i) /\ (PassedLimiter(i) => Fetched(i))
    /\ Len(ingest_result.results) = Len(DuePositions)
    /\ \A k \in DOMAIN DuePositions :
         /\ ingest_result.results[k].company_id = company_ids[DuePositions[k]]
         /\ ingest_result.results[k].data_source = source_name

\* a call in which one company fails after passing the limiter and a later,
\* different company is fetched and returned
C20_Witness ==
  /\ ingest_pc = "returned"
  /\ \E i, j \in DOMAIN company_ids :
       /\ i < j
       /\ company_ids[i] # company_ids[j]
       /\ PassedLimiter(i) /\ FetchOrMappingFails(i)
       /\ PassedLimiter(j) /\ ~ FetchOrMappingFails(j)
       /\ \E k \in DOMAIN ingest_result.results :
            ingest_result.results[k].company_id = company_ids[j]

-----------------------------------------------------------------------------
(* C21 *)

\* the multi-source groups of the call whose resolution raised
FailedGroups ==
  LET grouped == group_data_for_reconciliation(data_by_source) IN
  {grouped[k].key : k \in
     {k \in DOMAIN grouped :
        /\ ~ is_single_source(grouped[k].source_data)
        /\ resolution_raises(grouped[k].source_data,
                             reconciliation_strategy, ai_analysis)}}

\* the input of the call without the records of the failed groups
WithoutFailedGroups ==
  [j \in DOMAIN data_by_source |->
     [source |-> data_by_source[j].source,
      points |-> SelectSeq(data_by_source[j].points,
                           LAMBDA p : GroupKey(p) \notin FailedGroups)]]

-----------------------------------------------------------------------------
(* C22 *)

\* the requested sources whose adapter returned records
SucceededSources ==
  {name \in Range(multi_sources) \cap DOMAIN multi_adapters :
     multi_adapters[name].kind = "data"}

\* the records the adapters of the succeeded sources returned
SucceededRecords ==
  UNION {Range(multi_adapters[name].points) : name \in SucceededSources}

\* C22: a source whose adapter raises does not block the others: the call
\* does not raise, it returns only records of sources that succeeded, for
\* every record of a succeeded source it returns a record of the same
\* company and day that scores at least as high, and when every source
\* fails it returns the empty list.
C22_SourceFailureDoesNotBlock ==
  multi_pc = "returned" =>
    /\ ~ multi_result.raised
    /\ Range(multi_result.results) \subseteq SucceededRecords
    /\ \A p \in SucceededRecords :
         \E q \in Range(multi_result.results) :
           /\ DedupKey(q) = DedupKey(p)
           /\ RLeq(p.data_quality_score, q.data_quality_score)
    /\ SucceededSources = {} => multi_result.results = << >>

\* a call in which the first adapter asked raises and a later one returns
\* records that are in the result
C22_Witness ==
  /\ multi_pc = "returned"
  /\ multi_sources # << >>
  /\ Len(multi_sources) = 2
  /\ multi_adapters[multi_sources[1]].kind # "data"
  /\ multi_sources[2] \in SucceededSources
  /\ multi_adapters[multi_sources[2]].points # << >>
  /\ multi_result.results # << >>

-----------------------------------------------------------------------------
(* C23 *)

\* the calls of _check_rate_limit that returned True so far
Grants ==
  IF callers = << >> THEN 0
  ELSE callers[1].granted + callers[2].granted

\* a caller is between the test and the decrement
MidCheck == \E c \in DOMAIN callers : callers[c].pc = "decrement"

-----------------------------------------------------------------------------
(* C24 *)

\* the entries the log holds for the company at position i
LogEntries(i) == {k \in DOMAIN ingest_log : ingest_log[k].i = i}

\* C24: a company the rate limiter denies is passed over for the rest of
\* the call: the limiter is consulted once per entry of the company list, a
\* denied entry is never fetched, the provider is called at most once per
\* entry, and the output holds at most one record per entry.
C24_DeniedCompanyNotRetried ==
  /\ \A i \in DOMAIN company_ids : Cardinality(LogEntries(i)) <= 1
  /\ \A k \in DOMAIN ingest_log :
       ~ ingest_log[k].granted => ~ Fetched(ingest_log[k].i)
  /\ ingest_pc = "returned" =>
       /\ \A i \in DOMAIN company_ids : Cardinality(LogEntries(i)) = 1
       /\ Len(ingest_result.results) <=
            Cardinality({i \in DOMAIN company_ids : Fetched(i)})
       /\ Len(ingest_result.results) <= Len(company_ids)

\* a call that returned after a denial, with a later company fetched
C24_Witness ==
  /\ ingest_pc = "returned"
  /\ \E i, j \in DOMAIN company_ids :
       /\ i < j
       /\ Visited(i) /\ ~ PassedLimiter(i)
       /\ Fetched(j)
  /\ ingest_result.results # << >>

-----------------------------------------------------------------------------
(* C25 *)

\* the multi-source groups of the call, as the engine groups them
MultiSourceGroups ==
  LET grouped == group_data_for_reconciliation(data_by_source) IN
  {grouped[k].source_data : k \in
     {k \in DOMAIN grouped : ~ is_single_source(grouped[k].source_data)}}

\* the sources of a group that have a weight: the weights used
WeightedSources(source_data) ==
  {source_data[j].source : j \in
     {j \in DOMAIN source_data :
        /\ source_data[j].points # << >>
        /\ source_data[j].source \in DOMAIN ai_analysis.weights}}

\* the synthesized record of a group among the reconciled records
SynthesizedFor(source_data) ==
  {q \in Range(reconciliation_result.reconciled_data) :
     /\ q.data_source = "reconciled_ai"
     /\ GroupKey(q) = GroupKey(source_data[1].points[1])}

\* C25: the record synthesized by ai-weighted reconciliation is tagged
\* reconciled_ai, its data_quality_score is min(1, mean of the weights of
\* the sources that contributed to the group) and its confidence_score is
\* min(1, sum of those weights).
C25_SynthesizedScores ==
  (recon_pc = "done" /\ reconciliation_strategy = "ai_weighted"
     /\ ai_analysis.kind = "dict" /\ ai_analysis.has_weights) =>
    \A source_data \in MultiSourceGroups :
      LET used == WeightedSources(source_data)
          total == RSum(ai_analysis.weights, used)
      IN (used # {} /\ total # Zero) =>
           /\ SynthesizedFor(source_data) # {}
           /\ \A q \in SynthesizedFor(source_data) :
                /\ q.data_quality_score =
                     RMin(One, RDiv(total, R(Cardinality(used), 1)))
                /\ q.confidence_score = RMin(One, total)

-----------------------------------------------------------------------------
(* C26 *)

\* the place of each stage and of each position of the cycle in the order
StageRank ==
  [stage \in {"idle", "discovery", "ingestion", "reconciliation",
              "quality_control", "assembly", "done"} |->
     CASE stage = "idle" -> 0
       [] stage = "discovery" -> 1
       [] stage = "ingestion" -> 2
       [] stage = "reconciliation" -> 3
       [] stage = "quality_control" -> 4
       [] stage = "assembly" -> 5
       [] stage = "done" -> 6]

\* the paths of the store that hold a dataset
WrittenPaths == {path \in DOMAIN storage : storage[path] # << >>}

\* C26: the stages of a cycle run in the order ingestion, reconciliation,
\* quality control, assembly, each at most once and each before the cycle
\* has moved past it; once ingestion is over every source that returned
\* records is in data_by_source, so reconciliation sees them all; a dataset
\* is in the store only when the cycle is done with assembly as its last
\* stage, there is at most one, and the final record set is non-empty.
C26_StagesInOrder ==
  /\ \A i, j \in DOMAIN cycle_stages :
       i < j => StageRank[cycle_stages[i]] < StageRank[cycle_stages[j]]
  /\ \A i \in DOMAIN cycle_stages :
       StageRank[cycle_stages[i]] < StageRank[cycle_pc]
  /\ "ingestion" \in Range(cycle_stages) =>
       \A k \in DOMAIN CycleSources :
         (cycle_env.sources[k].kind = "data"
            /\ cycle_env.sources[k].points # << >>) =>
           \E e \in Range(cycle_data_by_source) : e.source = CycleSources[k]
  /\ WrittenPaths # {} =>
       /\ cycle_pc = "done"
       /\ cycle_stages[Len(cycle_stages)] = "assembly"
       /\ cycle_reconciled # << >>
       /\ Cardinality(WrittenPaths) = 1
       /\ guid <= 1

\* a cycle that ran all four stages and wrote its dataset
C26_Witness ==
  /\ cycle_pc = "done"
  /\ Len(cycle_stages) >= 4
  /\ SubSeq(cycle_stages, Len(cycle_stages) - 3, Len(cycle_stages)) =
       <<"ingestion", "reconciliation", "quality_control", "assembly">>
  /\ WrittenPaths # {}
  /\ cycle_results.success

-----------------------------------------------------------------------------
(* C27 *)

\* 0 <= tokens <= max_tokens
WithinBucket(tokens) ==
  RLeq(Zero, tokens) /\ RLeq(tokens, adapter_rate_limiter.max_tokens)

\* C27: after any sequence of _check_rate_limit calls at non-decreasing
\* times the bucket's tokens are within [0, max_tokens], both as each call
\* sees them after its refill and as it leaves them.
C27_TokensWithinBucket ==
  /\ WithinBucket(adapter_rate_limiter.tokens)
  /\ \A k \in DOMAIN ingest_log : WithinBucket(ingest_log[k].tokens)
  /\ adapter_rate_limiter.last_refill <= clock

\* a later call whose refill was cut at max_tokens and that took a token
C27_Witness ==
  /\ Len(ingest_log) >= 2
  /\ ingest_log[Len(ingest_log)].tokens = adapter_rate_limiter.max_tokens
  /\ ingest_log[Len(ingest_log)].granted
  /\ adapter_rate_limiter.last_refill > 0
  /\ adapter_rate_limiter.tokens = R(RateLimit - 1, 1)

-----------------------------------------------------------------------------
(* C28 *)

\* C28: the reconciled_data of a finished reconciliation holds at most one
\* record per (company_id, date) group, whatever the input and the strategy.
C28_OneRecordPerGroup ==
  recon_pc = "done" => \A k \in InputKeys : Len(OutputOf(k)) <= 1

-----------------------------------------------------------------------------
(* C29 *)

\* the three partitions one after the other
AllSplits == splits.train \o splits.val \o splits.test

\* C29: whatever n and the split ratios are, the train, validation and test
\* partitions are pairwise disjoint and together hold each ingested record
\* exactly once, so their sizes sum to n.
C29_SplitsPartitionTheData ==
  (train_pc = "done" /\ ingested # << >>) =>
    /\ Len(AllSplits) = Len(ingested)
    /\ \A i \in DOMAIN ingested :
         Cardinality({k \in DOMAIN AllSplits : AllSplits[k] = ingested[i]})
           = 1

-----------------------------------------------------------------------------
(* C30 *)

\* C30: confidence-based reconciliation keeps every non-empty group: each
\* group of the input has a record in the result, whatever its scores.
C30_NonEmptyGroupKept ==
  (recon_pc = "done" /\ reconciliation_strategy = "confidence_based") =>
    \A k \in InputKeys : OutputOf(k) # << >>

====
